---- MODULE Spec2Model ----
(***************************************************************************)
(* Verification model of the kisaan WhatsApp advisory bot.                 *)
(*                                                                         *)
(* The specifications share the variables of this module:                  *)
(*   Spec         the dialog state machine (Conversation.handle_message)   *)
(*                over the session store and the audit sink;               *)
(*   SpecOrch     the call orchestrator (_gemini_generate_content);        *)
(*   SpecAgg      the multimodal aggregator (_aggregate_multimodal_query); *)
(*   SpecDispatch the webhook dispatcher (handle_webhook and               *)
(*                _call_maybe_async);                                      *)
(*   SpecStore    the session store, one action per operation;             *)
(*   SpecCollect  the collecting branch of handle_message step by step;    *)
(*   SpecVocab    concurrent writers and readers of the vocabulary file;   *)
(*   SpecDetect   crop_name.detect_crop and CropDetector.identify_crop;    *)
(*   SpecRank     the ranking and decision of detect_crop on any          *)
(*                candidates of the matcher;                               *)
(*   SpecRag      the evidence retriever (retrieve_rag_evidence);          *)
(*   SpecCache    the detector cache of crop_name.py under two lookups;    *)
(*   SpecAppend   two handlers of one user appending to the query arrays;  *)
(*   SpecUpload   the names of the media the collecting branch uploads.    *)
(*                                                                         *)
(* The repository holds two versions of the conversation module:           *)
(* services/conversation.py, which app.py imports, and                     *)
(* "services/conversation current working backup.py", the only place where *)
(* the call orchestrator exists.  The variable ver selects the version a   *)
(* behaviour runs; both are modelled from their own source.                *)
(*                                                                         *)
(* The session-store functions of redis_session.py are modelled by what    *)
(* their bodies do once awaited, the way the conversation module uses      *)
(* them.  createdAt/updatedAt, queryType and geniminiSplittedQueries are   *)
(* left out of the session: no handler reads them.                         *)
(***************************************************************************)
EXTENDS Integers, Sequences, FiniteSets, TLC

VARIABLES
    ver,       \* which conversation module handles the events
    store,     \* the stored session of the user, or NoSession
    docs,      \* audit sink: file name <<sessionId, suffix>> -> dumped session
    nextSid,   \* source of fresh session ids (uuid4)
    ttl,       \* seconds the session key has left to live, 0 when absent
    nEvents,   \* inbound events handled so far
    h,         \* what the last handler execution did (history)
    orchCall,  \* state of one _gemini_generate_content invocation
    aggCall,   \* state of one _aggregate_multimodal_query invocation
    disp,      \* state of the webhook dispatcher
    vocab,     \* the crop vocabulary: its file and users, or one detection
    rag        \* one call of retrieve_rag_evidence

vars == <<ver, store, docs, nextSid, ttl, nEvents, h, orchCall, aggCall, disp, vocab, rag>>

----------------------------------------------------------------------------
(* Bounds of the model *)

\* inbound events handled in one behaviour
MaxEvents == 8

----------------------------------------------------------------------------
(* Values *)

None == "None"
UserId == "u1"
LIVE == "conversation.py"
BACKUP == "conversation current working backup.py"
Versions == {LIVE, BACKUP}

Crops == {"Wheat", "Rice"}

\* redis_session.py SessionState, the members the handlers use
GREETING == "GREETING"
AWAITING_MENU_WEATHER_CHOICE == "AWAITING_MENU_WEATHER_CHOICE"
AWAITING_WEATHER_LOCATION == "AWAITING_WEATHER_LOCATION"
AWAITING_DISTRICT_NAME == "AWAITING_DISTRICT_NAME"
AWAITING_CROP_NAME == "AWAITING_CROP_NAME"
AWAITING_CROP_CONFIRMATION == "AWAITING_CROP_CONFIRMATION"
AWAITING_AMBIGUOUS_CROP_CHOICE == "AWAITING_AMBIGUOUS_CROP_CHOICE"
CROP_ADVICE_CATEGORY_MENU == "CROP_ADVICE_CATEGORY_MENU"
CROP_ADVICE_QUERY_COLLECTING == "CROP_ADVICE_QUERY_COLLECTING"
PROCESSING_CROP_QUERY == "PROCESSING_CROP_QUERY"

\* the backup version processes automatically at this many collected items
AutoTriggerItems == 6

----------------------------------------------------------------------------
(* Inbound events: services/message.py *)

ButtonIds == {"crop_confirm_yes", "crop_confirm_no", "query_continue",
              "query_done", "amb_crop_0", "amb_crop_1", "amb_crop_2"}
ListIds == {"weather_info", "disease_management", "variety_sowing_time", "variety"}

Events ==
    [type : {"text", "audio", "image", "location"}, kind : {None}, id : {None}]
    \cup [type : {"interactive"}, kind : {"BUTTON"}, id : ButtonIds]
    \cup [type : {"interactive"}, kind : {"LIST"}, id : ListIds]
    \cup [type : {"interactive"}, kind : {None}, id : {None}]

\* Message.get_interaction: None unless a button_reply or list_reply
get_interaction(ev) ==
    IF ev.type = "interactive" /\ ev.kind # None THEN ev ELSE None

HasInteraction(ev) == ev.type = "interactive" /\ ev.kind # None

\* the body of a text message, the media id of an audio or image message
TextBody == "q"

----------------------------------------------------------------------------
(* Session store and audit sink: services/redis_session.py *)

SESSION_TTL == 300

NoSession == [absent |-> TRUE]
Present(s) == "state" \in DOMAIN s
Get(s, k) == IF k \in DOMAIN s THEN s[k] ELSE None

EmptyQuery == [texts |-> <<>>, audios |-> <<>>, images |-> <<>>]

\* A world is the store, the audit sink and the effects of the running handler:
\*   s      the stored session       docs  the audit sink
\*   sid    the next fresh id
\*   ops    store operations of this handler, in order
\*   out    outbound messages of this handler, in order
\*   exc    TRUE when the handler ended by an uncaught exception
\*   ttl    seconds the session key has left to live
\*   det    what detect_crop returned to this handler, if it was called
\*   chain  the generation chain _generate_response took for the advice
\*   dec    what the decomposition call returned, "none" when it did not
\*   menu   the buttons of the ambiguity menu this handler sent
NoDetect == [kind |-> "none", options |-> <<>>]

World(s, d, n) ==
    [s |-> s, docs |-> d, sid |-> n, ops |-> <<>>, out |-> <<>>, exc |-> FALSE,
     ttl |-> ttl, det |-> NoDetect, chain |-> "none", dec |-> "none", menu |-> <<>>]

get_session(w) == w.s

create_session(w) ==
    [w EXCEPT
        !.s = [userId |-> UserId,
               sessionId |-> w.sid,
               state |-> GREETING,
               location |-> None,
               district |-> None,
               isExistingCrop |-> "False",
               cropAdviceCategory |-> None,
               crop |-> None,
               query |-> EmptyQuery,
               uploadCount |-> 0,
               geminiAggregatedQuery |-> None,
               geminiAggregatedQueryDecomposed |-> <<>>,
               adviceResponses |-> <<>>],
        !.sid = w.sid + 1,
        !.ttl = SESSION_TTL,
        !.ops = Append(@, <<"create", w.sid>>)]

\* {**session, **updates}
Merge(s, upd) ==
    [k \in DOMAIN s \cup DOMAIN upd |-> IF k \in DOMAIN upd THEN upd[k] ELSE s[k]]

\* an absent session is replaced by a fresh one and the updates are dropped
\* an update that stores the value and keeps the lifetime the key has left
update_session_keepttl(w, upd) ==
    IF ~Present(w.s) THEN create_session(w)
    ELSE [w EXCEPT !.s = Merge(w.s, upd)]

\* setex(key, SESSION_TTL, value)
update_session(w, upd) ==
    IF ~Present(w.s) THEN create_session(w)
    ELSE [w EXCEPT !.s = Merge(w.s, upd), !.ttl = SESSION_TTL]

update_session_state(w, st) == update_session(w, [state |-> st])
update_crop_advice_category(w, c) == update_session(w, [cropAdviceCategory |-> c])
update_crop_info(w, c) == update_session(w, [crop |-> c])
update_is_existing_crop(w, b) == update_session(w, [isExistingCrop |-> b])
update_district_info(w, d) == update_session(w, [district |-> d])
set_user_location(w, l) == update_session(w, [location |-> l])

\* get_session(user) or create_session(user)
EnsureSession(w) == IF Present(w.s) THEN w ELSE create_session(w)

\* payload {"text": v}, {"audioUrl": v} or {"imageUrl": v}: field names the
\* array the value goes to
append_user_query(w, field, value) ==
    LET w1 == EnsureSession(w)
        q  == w1.s.query
    IN update_session(w1, [query |-> [q EXCEPT ![field] = Append(@, value)]])

\* the log entry names the deleted session, 0 when there was none
delete_session(w) ==
    [w EXCEPT !.s = NoSession,
              !.ttl = 0,
              !.ops = Append(@, <<"delete", IF Present(w.s) THEN w.s.sessionId ELSE 0>>)]

\* a key that outlives its lifetime
expire_never(w) == w

\* the store drops the key when its lifetime has run out
expire(w) == [w EXCEPT !.s = NoSession, !.ttl = 0]

Suffix(failed) == IF failed THEN "_failed" ELSE ""

\* writes {user}_{sessionId}{suffix}.json; nothing when there is no session
dump_session(w, failed) ==
    IF ~Present(w.s) THEN w
    ELSE LET name == <<w.s.sessionId, Suffix(failed)>>
         IN [w EXCEPT !.docs = (name :> w.s) @@ w.docs,
                      !.ops = Append(@, <<"dump", w.s.sessionId, Suffix(failed)>>)]

append_advice_response(w, text) ==
    LET w1 == EnsureSession(w)
    IN update_session(w1, [adviceResponses |-> Append(w1.s.adviceResponses, text)])

append_aggregated_query_response(w, text) ==
    update_session(EnsureSession(w), [geminiAggregatedQuery |-> text])

append_aggregated_query_decomposed_response(w, qs) ==
    update_session(EnsureSession(w), [geminiAggregatedQueryDecomposed |-> qs])

reset_query_arrays(w) ==
    update_session(EnsureSession(w), [query |-> EmptyQuery, uploadCount |-> 0])

\* returns the world after the write; the count is the stored uploadCount
next_upload_count(w) ==
    LET w1 == EnsureSession(w)
    IN update_session(w1, [uploadCount |-> w1.s.uploadCount + 1])

\* GraphApi.*: one outbound message
Send(w, msg) == [w EXCEPT !.out = Append(@, msg)]

\* utility.set_timeout(2, GraphApi.send_welcome_menu, ...): the task it creates
\* sends the welcome menu two seconds later and touches nothing else
set_timeout(w) == [w EXCEPT !.out = Append(@, "welcome_menu_delayed")]

\* an exception leaves the handler: what was written stays written
Raise(w) == [w EXCEPT !.exc = TRUE]

----------------------------------------------------------------------------
(* Collaborators, as the outcomes the handlers can observe *)

\* how detect_crop finds one crop: the local matcher, the fallback naming a
\* crop of the vocabulary, or the fallback describing a new crop, which
\* _add_new_crop_to_file appends (file_added) unless it is already there
SingleMatches ==
    {[matched_by |-> "local", file_added |-> FALSE],
     [matched_by |-> "ai_existing", file_added |-> FALSE],
     [matched_by |-> "ai_new", file_added |-> FALSE],
     [matched_by |-> "ai_new", file_added |-> TRUE]}

\* is_existing_crop taken as matched_by == "local"
is_existing_crop_by_match(matched_by, file_added) ==
    IF matched_by = "local" THEN "True" ELSE "False"

\* is_existing_crop of the result of detect_crop for one crop
is_existing_crop(matched_by, file_added) ==
    IF matched_by = "ai_new" /\ file_added THEN "False" ELSE "True"

\* the label a curated entry of the ambiguity table gives a candidate
HindiLabel(crop) == <<crop, "hi">>

\* a crop name as a button title
NameLabel(crop) == <<crop, "name">>

\* crop_name.detect_crop: ambiguous (curated or fuzzy) with its candidate
\* list, no crop, or one crop with is_existing_crop
\* an ambiguous result carries the curated button labels, if there are any
DetectResults ==
    {[kind |-> "ambiguous", options |-> <<"Wheat", "Rice">>, buttons |-> <<>>],
     [kind |-> "ambiguous", options |-> <<"Rice", "Wheat">>,
      buttons |-> <<HindiLabel("Rice"), HindiLabel("Wheat")>>],
     [kind |-> "ambiguous", options |-> <<"Wheat", "Rice", "Maize", "Bajra">>,
      buttons |-> <<>>],
     [kind |-> "ambiguous", options |-> <<>>, buttons |-> <<>>],
     [kind |-> "none", options |-> <<>>]}
    \cup {[kind |-> "single", crop |-> c,
           existing |-> is_existing_crop(m.matched_by, m.file_added),
           options |-> <<>>, matched_by |-> m.matched_by, file_added |-> m.file_added] :
             c \in Crops, m \in SingleMatches}

\* _load_varieties_records / _fetch_varieties_from_gemini as seen by
\* _get_varieties_sowing_response: records found and formatted, the generated
\* answer, no answer (None), or the data file cannot be read (raises)
VarietyOutcomes == {"records", "generated", "none", "raise"}

\* _aggregate_multimodal_query status once the generation call was made
AggOutcomes == {"ok", "mismatch", "error"}

\* a generation call through the orchestrator (or directly, in conversation.py)
GenOutcomes == {"ok", "timeout", "error"}

\* retrieve_rag_evidence: records, or an exception
RagOutcomes == {"records", "raise"}

\* failure points of the remaining collaborators in one handler execution:
\* the weather provider, the media download, the media upload, and the
\* outbound send of the "please wait" message
FailPoints == {"none", "weather", "download", "upload", "send"}

\* the decomposition output: lines with the '|' separator, or none usable
DecompOutcomes == {"lines", "nolines"}

NoInput ==
    [det |-> [kind |-> "none", options |-> <<>>], var |-> "records", agg |-> "ok",
     g1 |-> "ok", g2 |-> "ok", dec |-> "lines", rag |-> "records", aud |-> "ok",
     fail |-> "none"]

\* texts of the answers, as tokens
AGGQ == "aggregated-query"
ADVICE == "advice"
RAGTXT == "rag-grounded-advice"
FINAL == "audited-advice"
VARIETIES == "varieties-and-sowing-time"

----------------------------------------------------------------------------
(* services/conversation.py and its backup: helpers of handle_message *)

reset_session_state(w) ==
    Send(update_session_state(w, AWAITING_MENU_WEATHER_CHOICE), "welcome_menu")

\* _get_varieties_sowing_response(crop): the text, None, or "raise"
get_varieties_sowing_response(in) ==
    CASE in.var = "records" -> VARIETIES
      [] in.var = "generated" -> VARIETIES
      [] in.var = "none" -> None
      [] OTHER -> "raise"

continue_after_crop_selected_unlocked(w, crop, is_existing, in) ==
    LET w1 == update_is_existing_crop(w, is_existing)
        w2 == EnsureSession(w1)
        category_id == Get(w2.s, "cropAdviceCategory")
        response == get_varieties_sowing_response(in)
    IN IF category_id = "variety_sowing_time"
       THEN IF response = "raise" THEN Raise(w2)
            ELSE LET w3 == Send(w2, IF response = None THEN "varieties_unavailable"
                                    ELSE "varieties_answer")
                     w4 == create_session(delete_session(dump_session(w3, FALSE)))
                     w5 == update_session_state(w4, AWAITING_MENU_WEATHER_CHOICE)
                 IN set_timeout(w5)
       ELSE Send(update_session_state(w2, CROP_ADVICE_QUERY_COLLECTING), "ask_problem")

continue_after_crop_selected(w, crop, is_existing, in) ==
    LET w1 == update_is_existing_crop(update_crop_info(w, crop), is_existing)
        w2 == EnsureSession(w1)
        category_id == Get(w2.s, "cropAdviceCategory")
        response == get_varieties_sowing_response(in)
    IN IF category_id = "variety_sowing_time"
       THEN IF response = "raise" THEN Raise(w2)
            ELSE LET w3 == Send(w2, IF response = None THEN "varieties_unavailable"
                                    ELSE "varieties_answer")
                     w4 == create_session(delete_session(dump_session(w3, FALSE)))
                     w5 == update_session_state(w4, AWAITING_MENU_WEATHER_CHOICE)
                 IN set_timeout(w5)
       ELSE Send(update_session_state(w2, CROP_ADVICE_QUERY_COLLECTING), "ask_problem")

\* int(picked_id.split("_")[-1]); -1 stands for the ValueError
PickedIndex(id) ==
    CASE id = "amb_crop_0" -> 0
      [] id = "amb_crop_1" -> 1
      [] id = "amb_crop_2" -> 2
      [] OTHER -> -1

IsButton(ev) == HasInteraction(ev) /\ ev.kind \in {"BUTTON", "REPLY"}
IsList(ev) == HasInteraction(ev) /\ ev.kind = "LIST"

----------------------------------------------------------------------------
(* handle_message, one operator per state branch *)

OnGreeting(w, ev) ==
    update_session_state(Send(Send(w, "greeting"), "welcome_menu"),
                         AWAITING_MENU_WEATHER_CHOICE)

OnMenuChoice(w, ev) ==
    IF IsList(ev)
    THEN IF ev.id = "weather_info"
         THEN Send(update_session_state(w, AWAITING_WEATHER_LOCATION), "ask_location")
         ELSE Send(update_session_state(update_crop_advice_category(w, ev.id),
                                        AWAITING_DISTRICT_NAME), "ask_district")
    ELSE reset_session_state(w)

\* conversation.py dumps and then deletes; the backup deletes and then dumps
OnWeatherLocation(v, w, ev, in) ==
    IF ev.type = "location"
    THEN LET w1 == set_user_location(w, "loc")
         IN IF in.fail = "weather" THEN Raise(w1)
            ELSE LET w2 == Send(w1, "weather")
                     w3 == IF v = LIVE
                           THEN delete_session(dump_session(w2, FALSE))
                           ELSE dump_session(delete_session(w2), FALSE)
                     w4 == update_session_state(create_session(w3),
                                                AWAITING_MENU_WEATHER_CHOICE)
                 IN set_timeout(w4)
    ELSE reset_session_state(w)

OnDistrictName(w, ev) ==
    IF ev.type # "text" THEN Send(w, "ask_district")
    ELSE Send(update_session_state(update_district_info(w, TextBody), AWAITING_CROP_NAME),
              "ask_crop")

\* xs[:3]
FirstThree(xs) == SubSeq(xs, 1, IF Len(xs) < 3 THEN Len(xs) ELSE 3)

\* the buttons of the ambiguity menu: the curated labels if there are any,
\* else the crop names; button i has the id amb_crop_i
ambiguous_buttons(detect) ==
    LET names == [i \in 1..Len(detect.options) |-> NameLabel(detect.options[i])]
        titles == FirstThree(IF detect.buttons # <<>> THEN detect.buttons ELSE names)
    IN [i \in 1..Len(titles) |-> [id |-> i - 1, title |-> titles[i]]]

\* GraphApi.send_ambiguous_crop_menu(.., buttons): options[:3] are sent
send_ambiguous_crop_menu(w, buttons) ==
    [Send(w, "ambiguous_menu") EXCEPT !.menu = FirstThree(buttons)]

OnCropName(w0, ev, in) ==
    IF ev.type # "text" THEN Send(w0, "ask_crop")
    ELSE LET detect == in.det
             w == [w0 EXCEPT !.det = detect]
         IN IF detect.kind = "ambiguous"
            THEN send_ambiguous_crop_menu(
                     update_session_state(
                        update_session(w, [ambiguousCropOptions |-> detect.options,
                                           ambiguousButtonOptions |-> detect.buttons]),
                        AWAITING_AMBIGUOUS_CROP_CHOICE),
                     ambiguous_buttons(detect))
            ELSE IF detect.kind = "none"
            THEN Send(w, "crop_not_recognised")
            ELSE Send(update_session_state(
                        update_session(w, [pendingCrop |-> detect.crop,
                                           pendingCropHi |-> detect.crop,
                                           pendingIsExistingCrop |-> detect.existing]),
                        AWAITING_CROP_CONFIRMATION), "confirm_crop_menu")

ClearPending == [pendingCrop |-> None, pendingCropHi |-> None, pendingIsExistingCrop |-> None]

OnCropConfirmation(w, ev, in) ==
    IF ~IsButton(ev)
    THEN LET w1 == EnsureSession(w)
         IN IF Get(w1.s, "pendingCropHi") # None
            THEN Send(w1, "confirm_crop_menu")
            ELSE Send(update_session_state(w1, AWAITING_CROP_NAME), "ask_crop")
    ELSE IF ev.id = "crop_confirm_no"
    THEN Send(update_session_state(update_session(w, ClearPending), AWAITING_CROP_NAME),
              "ask_crop_again")
    ELSE IF ev.id = "crop_confirm_yes"
    THEN LET w1 == EnsureSession(w)
             crop == Get(w1.s, "pendingCrop")
             is_existing == Get(w1.s, "pendingIsExistingCrop")
         IN IF crop = None
            THEN Send(update_session_state(w1, AWAITING_CROP_NAME), "ask_crop")
            ELSE continue_after_crop_selected(
                     update_session(w1, ClearPending), crop,
                     IF is_existing = "True" THEN "True" ELSE "False", in)
    ELSE Send(w, "choose_yes_or_no")

\* a pick that takes the first candidate whatever button was pressed
OnAmbiguousChoice_first(w, ev, in) ==
    IF ~IsButton(ev) THEN Send(w, "choose_an_option")
    ELSE LET idx == PickedIndex(ev.id)
             w1 == EnsureSession(w)
             got == Get(w1.s, "ambiguousCropOptions")
             options == IF got = None THEN <<>> ELSE got
         IN IF idx < 0 THEN Send(w, "choose_again")
            ELSE IF idx >= Len(options) THEN Send(w1, "choose_again")
            ELSE continue_after_crop_selected(w1, options[1], "True", in)

OnAmbiguousChoice(w, ev, in) ==
    IF ~IsButton(ev) THEN Send(w, "choose_an_option")
    ELSE LET idx == PickedIndex(ev.id)
             w1 == EnsureSession(w)
             got == Get(w1.s, "ambiguousCropOptions")
             options == IF got = None THEN <<>> ELSE got
         IN IF idx < 0 THEN Send(w, "choose_again")
            ELSE IF idx >= Len(options) THEN Send(w1, "choose_again")
            ELSE continue_after_crop_selected(w1, options[idx + 1], "True", in)

OnCategoryMenu(w, ev) ==
    IF IsList(ev)
    THEN Send(update_session_state(update_crop_advice_category(w, ev.id),
                                   CROP_ADVICE_QUERY_COLLECTING), "ask_problem")
    ELSE reset_session_state(w)

----------------------------------------------------------------------------
(* _generate_response *)

Resp(w, kind, text, st) == [w |-> w, kind |-> kind, text |-> text, agg |-> st]

TotalItems(q) == Len(q.texts) + Len(q.audios) + Len(q.images)

\* status of _aggregate_multimodal_query as _generate_response sees it: no
\* generation call is made for an empty batch
AggStatus(q, in) == IF TotalItems(q) = 0 THEN "error" ELSE in.agg

\* the mismatch branch, the same in both versions: the arrays are reset, the
\* session is dumped with the failed suffix, the state goes back to collecting
OnMismatch(w) ==
    Resp(update_session_state(dump_session(reset_query_arrays(w), TRUE),
                              CROP_ADVICE_QUERY_COLLECTING),
         "dict", "ask_about_locked_crop", "mismatch")

\* a line of text: one with the separator is "<crop> | <text>"
TaggedLine(crop, text) == [sep |-> TRUE, crop |-> crop, text |-> text]
PlainLine(text) == [sep |-> FALSE, crop |-> None, text |-> text]

\* the non-empty lines of the decomposition output, stripped: atomic
\* questions with a remark between them, or no line with the separator
decomp_lines(dec) ==
    IF dec = "lines"
    THEN <<TaggedLine("crop", "question"), PlainLine("remark"),
           TaggedLine("crop", "second question")>>
    ELSE <<PlainLine("remark")>>

\* [q for q in decomposed_queries if "|" in q]
with_separator(lines) == SelectSeq(lines, LAMBDA q : q.sep)

\* the decomposed queries stored by conversation.py: the lines holding '|'
DecomposedLive(in) == with_separator(decomp_lines(in.dec))
\* the backup falls back to the aggregated query as the single line
DecomposedBackup(in) ==
    IF with_separator(decomp_lines(in.dec)) # <<>>
    THEN with_separator(decomp_lines(in.dec))
    ELSE <<TaggedLine("crop", AGGQ)>>

\* the decomposition call has returned its text
Decomposed(w, in) == [w EXCEPT !.dec = in.dec]

\* conversation.py, existing crop: decomposition, evidence, dump and delete
ExistingLive(w, in) ==
    LET w1 == append_advice_response(w, AGGQ)
    IN IF in.g1 # "ok" THEN Resp(w1, "str", AGGQ, "ok")
       ELSE LET w2 == append_aggregated_query_decomposed_response(Decomposed(w1, in),
                                                                   DecomposedLive(in))
                w3 == IF in.rag = "records"
                      THEN update_session(w2, [ragResults |-> "records"]) ELSE w2
            IN Resp(delete_session(dump_session(w3, FALSE)), "str", AGGQ, "ok")

\* conversation.py, new crop: advice and its audit, two direct generation calls
NewCropLive(w, in) ==
    IF in.g1 # "ok" \/ in.g2 # "ok" THEN Resp(w, "str", "apology_error", "ok")
    ELSE Resp(append_advice_response(w, ADVICE), "str", ADVICE, "ok")

Audited(text, in) == IF in.aud = "ok" THEN FINAL ELSE text

\* the branch of _generate_response on session["isExistingCrop"] is entered
Invoke(w, chain) == [w EXCEPT !.chain = chain]

\* the backup, existing crop: decomposition, evidence, grounded answer, dump
\* and delete; then the final auditor and the audit-trail append
ExistingBackup(w, in) ==
    LET w1 == append_advice_response(w, AGGQ)
        w2 == append_aggregated_query_decomposed_response(w1, DecomposedBackup(in))
        w3 == IF in.rag = "records"
              THEN update_session(w2, [ragResults |-> "records"]) ELSE w2
        text == IF in.g1 = "ok" /\ in.rag = "records" /\ in.g2 = "ok" THEN RAGTXT ELSE AGGQ
        w4 == IF in.g1 = "ok" THEN Decomposed(delete_session(dump_session(w3, FALSE)), in)
              ELSE w1
    IN Resp(append_advice_response(w4, Audited(text, in)), "str", Audited(text, in), "ok")

NewCropBackup(w, in) ==
    IF in.g1 = "timeout" \/ (in.g1 = "ok" /\ in.g2 = "timeout")
    THEN Resp(w, "str", "apology_timeout", "ok")
    ELSE IF in.g1 # "ok" \/ in.g2 # "ok" THEN Resp(w, "str", "apology_error", "ok")
    ELSE Resp(append_advice_response(w, Audited(ADVICE, in)), "str", Audited(ADVICE, in), "ok")

generate_response(v, w, session, in) ==
    IF ~Present(session) THEN Resp(w, "str", "session_expired", "none")
    ELSE
    LET nocrop == Get(session, "crop") = None
        det == in.det
    IN IF nocrop /\ det.kind = "ambiguous" THEN Resp(w, "str", "crop_unclear", "none")
       ELSE IF nocrop /\ det.kind = "none" THEN Resp(w, "str", "crop_not_recognised", "none")
       ELSE
       LET w1 == IF nocrop
                 THEN update_is_existing_crop(update_crop_info(w, det.crop), det.existing)
                 ELSE w
           category_id == Get(session, "cropAdviceCategory")
           varieties == get_varieties_sowing_response(in)
           status == AggStatus(session.query, in)
       IN IF category_id = "variety_sowing_time"
          THEN (IF varieties = "raise" THEN Resp(w1, "str", "sorry", "none")
                ELSE IF varieties = None THEN Resp(w1, "str", "varieties_unavailable", "none")
                ELSE Resp(w1, "str", varieties, "none"))
          ELSE IF category_id \notin {"variety", "sowing_time"}
          THEN (IF status = "mismatch" THEN OnMismatch(w1)
                ELSE IF status # "ok"
                THEN Resp(w1, "str", IF v = LIVE THEN "add_more" ELSE "apology_text_only",
                          status)
                ELSE LET w2 == Invoke(append_aggregated_query_response(w1, AGGQ),
                                      IF session.isExistingCrop # "True"
                                      THEN "advice_then_audit" ELSE "decomposition")
                     IN IF session.isExistingCrop # "True"
                        THEN (IF v = LIVE THEN NewCropLive(w2, in) ELSE NewCropBackup(w2, in))
                        ELSE (IF v = LIVE THEN ExistingLive(w2, in) ELSE ExistingBackup(w2, in)))
          ELSE (IF in.var = "raise" \/ in.g1 # "ok" THEN Resp(w1, "str", "sorry", "none")
                ELSE Resp(w1, "str", "varieties_chat_answer", "none"))

----------------------------------------------------------------------------
(* Query collection and processing *)

\* conversation.py, the query_done branch and the PROCESSING_CROP_QUERY branch:
\* whatever _generate_response returned, the session is dumped, deleted and
\* replaced by a fresh one
FinishLive(r) ==
    LET w1 == create_session(delete_session(dump_session(r.w, FALSE)))
    IN IF r.kind = "dict" THEN Send(w1, r.text)
       ELSE update_session_state(Send(w1, r.text), GREETING)

\* a processing end that answers from the session that asked and keeps it
FinishBackup_keep(r) ==
    IF r.kind = "dict"
    THEN Send(Send(update_session_state(r.w, CROP_ADVICE_QUERY_COLLECTING), r.text),
              "send_again")
    ELSE update_session_state(Send(r.w, r.text), GREETING)

\* the backup: _trigger_processing after _generate_response
FinishBackup(r) ==
    IF r.kind = "dict"
    THEN Send(Send(update_session_state(r.w, CROP_ADVICE_QUERY_COLLECTING), r.text),
              "send_again")
    ELSE update_session_state(
             Send(create_session(delete_session(dump_session(r.w, FALSE))), r.text),
             GREETING)

Finish(v, r) ==
    [w |-> IF v = LIVE THEN FinishLive(r) ELSE FinishBackup(r), agg |-> r.agg]

\* _trigger_processing (backup) and the inline query_done code (conversation.py)
trigger_processing(v, w, in) ==
    LET w1 == update_session_state(w, PROCESSING_CROP_QUERY)
    IN IF in.fail = "send" THEN [w |-> Raise(w1), agg |-> "none"]
       ELSE LET w2 == Send(w1, "please_wait")
            IN Finish(v, generate_response(v, w2, get_session(w2), in))

\* the media branch: download, count, upload, append
CollectMedia(w, field, in) ==
    IF in.fail = "download" THEN Raise(w)
    ELSE LET w1 == EnsureSession(w)
             session_id == w1.s.sessionId
             w2 == next_upload_count(w1)
             blob_name == <<UserId, session_id, w2.s.uploadCount, field>>
         IN IF in.fail = "upload" THEN Raise(w2)
            ELSE append_user_query(w2, field, blob_name)

Collected(w, ev, in) ==
    CASE ev.type = "text" -> append_user_query(w, "texts", TextBody)
      [] ev.type = "audio" -> CollectMedia(w, "audios", in)
      [] ev.type = "image" -> CollectMedia(w, "images", in)
      [] OTHER -> w

OnCollecting(v, w, ev, in) ==
    LET w1 == Collected(w, ev, in)
        noAgg(x) == [w |-> x, agg |-> "none"]
    IN IF w1.exc THEN noAgg(w1)
       ELSE IF ~HasInteraction(ev)
       THEN (IF v = BACKUP /\ TotalItems(get_session(w1).query) >= AutoTriggerItems
             THEN trigger_processing(v, w1, in)
             ELSE noAgg(Send(w1, "query_confirmation_menu")))
       ELSE IF ev.id = "query_continue"
       THEN noAgg(Send(update_session_state(w1, CROP_ADVICE_QUERY_COLLECTING), "add_more"))
       ELSE IF ev.id = "query_done"
       THEN trigger_processing(v, w1, in)
       ELSE noAgg(w1)

\* the PROCESSING_CROP_QUERY branch
OnProcessing(v, w, in) ==
    IF v = BACKUP THEN trigger_processing(v, w, in)
    ELSE Finish(v, generate_response(v, w, get_session(w), in))

----------------------------------------------------------------------------
(* The dialog state machine: one action per state branch of handle_message *)

OrchIdle == [pc |-> "idle"]
AggIdle == [pc |-> "idle"]
DispIdle == [pc |-> "idle"]
VocabIdle == [pc |-> "idle"]

RagIdle == [pc |-> "idle"]

NoHistory ==
    [ev |-> [type |-> "none", kind |-> None, id |-> None], state |-> None,
     pre |-> NoSession, out |-> <<>>, ops |-> <<>>, exc |-> FALSE, agg |-> "none",
     det |-> NoDetect, chain |-> "none", dec |-> "none", added |-> None, menu |-> <<>>]

Init ==
    /\ ver \in Versions
    /\ store = NoSession
    /\ docs = <<>>
    /\ nextSid = 1
    /\ ttl = 0
    /\ nEvents = 0
    /\ h = NoHistory
    /\ orchCall = OrchIdle
    /\ aggCall = AggIdle
    /\ disp = DispIdle
    /\ vocab = VocabIdle
    /\ rag = RagIdle

\* handle_message starts by loading the session, creating it when absent
Loaded == EnsureSession(World(store, docs, nextSid))
State == Loaded.s.state

\* whether the last detect_crop call that found one crop appended it to the
\* vocabulary
Added(w) ==
    IF w.det.kind # "single" THEN h.added
    ELSE IF w.det.file_added THEN "True" ELSE "False"

\* the buttons of the most recently sent ambiguity menu
Menu(w) ==
    IF \E i \in 1..Len(w.out) : w.out[i] = "ambiguous_menu" THEN w.menu ELSE h.menu

\* the handler's effects become the new state; h records the execution
Effects(ev, w, aggStatus) ==
    /\ nEvents < MaxEvents
    /\ nEvents' = nEvents + 1
    /\ store' = w.s
    /\ docs' = w.docs
    /\ nextSid' = w.sid
    /\ ttl' = w.ttl
    /\ h' = [ev |-> ev, state |-> State, pre |-> store, out |-> w.out, ops |-> w.ops,
             exc |-> w.exc, agg |-> aggStatus, det |-> w.det, chain |-> w.chain,
             dec |-> w.dec, added |-> Added(w), menu |-> Menu(w)]

Commit(ev, w, aggStatus) ==
    /\ Effects(ev, w, aggStatus)
    /\ UNCHANGED <<ver, orchCall, aggCall, disp, vocab, rag>>

\* the outcomes of the generation chain that differ in what the code does:
\* a call that is not reached keeps its default outcome
ChainInputs(v, existing) ==
    {c \in [g1 : GenOutcomes, g2 : GenOutcomes, dec : DecompOutcomes,
            rag : RagOutcomes, aud : {"ok", "error"}] :
        /\ (c.g1 # "ok") => (c.g2 = "ok" /\ c.dec = "lines" /\ c.rag = "records")
        /\ ~existing => (c.dec = "lines" /\ c.rag = "records")
        /\ (existing /\ (v = LIVE \/ c.rag = "raise")) => c.g2 = "ok"
        /\ (v = LIVE \/ (~existing /\ (c.g1 # "ok" \/ c.g2 # "ok"))) => c.aud = "ok"}

\* the collaborator outcomes one processing run can observe
GenInputs(v, session) ==
    LET nocrop == Get(session, "crop") = None
        cat == Get(session, "cropAdviceCategory")
        existing == Get(session, "isExistingCrop") = "True"
        base(d) == [NoInput EXCEPT !.det = d]
        run(d) ==
            IF cat = "variety_sowing_time"
            THEN {[base(d) EXCEPT !.var = x] : x \in VarietyOutcomes}
            ELSE IF cat \in {"variety", "sowing_time"}
            THEN {[base(d) EXCEPT !.var = x, !.g1 = g] :
                     x \in {"records", "raise"}, g \in {"ok", "error"}}
            ELSE {[base(d) EXCEPT !.agg = a] : a \in {"mismatch", "error"}}
                 \cup {[base(d) EXCEPT !.g1 = c.g1, !.g2 = c.g2, !.dec = c.dec,
                                       !.rag = c.rag, !.aud = c.aud] :
                          c \in ChainInputs(v, existing)}
    IN {[NoInput EXCEPT !.fail = "send"]}
       \cup UNION {IF nocrop /\ d.kind # "single" THEN {base(d)} ELSE run(d) :
                      d \in (IF nocrop THEN DetectResults ELSE {NoInput.det})}

With(field, value) == [NoInput EXCEPT ![field] = value]

HandleGreeting ==
    /\ State = GREETING
    /\ \E ev \in Events : Commit(ev, OnGreeting(Loaded, ev), "none")

HandleMenuChoice ==
    /\ State = AWAITING_MENU_WEATHER_CHOICE
    /\ \E ev \in Events : Commit(ev, OnMenuChoice(Loaded, ev), "none")

HandleWeatherLocation ==
    /\ State = AWAITING_WEATHER_LOCATION
    /\ \E ev \in Events, f \in {"none", "weather"} :
          Commit(ev, OnWeatherLocation(ver, Loaded, ev, With("fail", f)), "none")

HandleDistrictName ==
    /\ State = AWAITING_DISTRICT_NAME
    /\ \E ev \in Events : Commit(ev, OnDistrictName(Loaded, ev), "none")

HandleCropName ==
    /\ State = AWAITING_CROP_NAME
    /\ \E ev \in Events, d \in DetectResults :
          Commit(ev, OnCropName(Loaded, ev, With("det", d)), "none")

HandleCropConfirmation ==
    /\ State = AWAITING_CROP_CONFIRMATION
    /\ \E ev \in Events, x \in VarietyOutcomes :
          Commit(ev, OnCropConfirmation(Loaded, ev, With("var", x)), "none")

HandleAmbiguousChoice ==
    /\ State = AWAITING_AMBIGUOUS_CROP_CHOICE
    /\ \E ev \in Events, x \in VarietyOutcomes :
          Commit(ev, OnAmbiguousChoice(Loaded, ev, With("var", x)), "none")

\* whether this event makes the collecting branch start the processing
StartsProcessing(ev) ==
    LET probe == OnCollecting(ver, Loaded, ev, NoInput).w
    IN Len(probe.out) > 0 /\ probe.out[1] = "please_wait"

HandleCollecting ==
    /\ State = CROP_ADVICE_QUERY_COLLECTING
    /\ \E ev \in Events :
          \E in \in (IF StartsProcessing(ev) THEN GenInputs(ver, Loaded.s)
                        ELSE {With("fail", f) : f \in {"none", "download", "upload"}}) :
                LET r == OnCollecting(ver, Loaded, ev, in)
                IN Commit(ev, r.w, r.agg)

HandleProcessing ==
    /\ State = PROCESSING_CROP_QUERY
    /\ \E ev \in Events, in \in GenInputs(ver, Loaded.s) :
          LET r == OnProcessing(ver, Loaded, in)
          IN Commit(ev, r.w, r.agg)

\* the inactivity window passes with no write to the session
Expire ==
    /\ Present(store)
    /\ LET w == expire(World(store, docs, nextSid))
       IN /\ store' = w.s
          /\ ttl' = w.ttl
    /\ h' = [NoHistory EXCEPT !.ev.type = "expired", !.state = store.state,
                              !.pre = store, !.added = h.added, !.menu = h.menu]
    /\ UNCHANGED <<ver, docs, nextSid, nEvents, orchCall, aggCall, disp, vocab, rag>>

Next ==
    \/ Expire
    \/ HandleGreeting
    \/ HandleMenuChoice
    \/ HandleWeatherLocation
    \/ HandleDistrictName
    \/ HandleCropName
    \/ HandleCropConfirmation
    \/ HandleAmbiguousChoice
    \/ HandleCollecting
    \/ HandleProcessing

Spec == Init /\ [][Next]_vars

----------------------------------------------------------------------------
(* Claims about the dialog state machine, checked under Spec *)

Handled == h.ev.type \notin {"none", "expired"}
TextEvent == [type |-> "text", kind |-> None, id |-> None]

\* what the collecting branch would store for a text message sent now
AfterText == OnCollecting(ver, Loaded, TextEvent, NoInput).w.s

\* C1: when query_done is pressed during collection and the aggregator answers
\* mismatch, the handler leaves the session in CROP_ADVICE_QUERY_COLLECTING
\* with the crop and the sessionId it had, with empty query arrays and a
\* "_failed" audit document written, and the next text is appended to it.
C1_MismatchKeepsCycle ==
    (Handled /\ h.state = CROP_ADVICE_QUERY_COLLECTING /\ h.ev.id = "query_done"
        /\ h.agg = "mismatch" /\ ~h.exc)
    => /\ Present(store)
       /\ store.state = CROP_ADVICE_QUERY_COLLECTING
       /\ store.crop = h.pre.crop
       /\ store.sessionId = h.pre.sessionId
       /\ store.query = EmptyQuery
       /\ <<h.pre.sessionId, "_failed">> \in DOMAIN docs
       /\ AfterText.sessionId = h.pre.sessionId
       /\ AfterText.query.texts = <<TextBody>>

\* C3: a handler execution in which a collaborator fails still ends normally
\* with a message sent to the user: no failure escapes handle_message as an
\* exception that leaves the user without a prompt.
C3_FailureStillPrompts ==
    Handled => (~h.exc /\ h.out # <<>>)

\* C4: every handled event is answered by at least one outbound message,
\* whatever the state and the event kind; no event is silently ignored.
C4_EveryEventAnswered ==
    (Handled /\ ~h.exc) => h.out # <<>>

\* the positions of an operation in the handler's log of store operations
Positions(op) == {i \in 1..Len(h.ops) : h.ops[i] = op}

Delivered ==
    \E i \in 1..Len(h.out) :
        h.out[i] \in {"weather", "varieties_answer", ADVICE, FINAL, RAGTXT, AGGQ,
                      "varieties_chat_answer"}

\* C9: a cycle that ends normally (forecast, variety answer or advice
\* delivered) writes the audit document named by the cycle's sessionId, and
\* writes it before that session is deleted.
C9_DumpBeforeDelete ==
    (Handled /\ ~h.exc /\ Delivered)
    => LET sid == h.pre.sessionId
       IN /\ <<sid, "">> \in DOMAIN docs
          /\ \E i \in Positions(<<"dump", sid, "">>) :
                \A j \in Positions(<<"delete", sid>>) : i < j

\* C12: when the inactivity window has passed with no write, the session is
\* absent, and the next event, whatever its type and whatever state had been
\* reached, is handled as a first contact: a new session with a new
\* sessionId is created and dispatched in GREETING, with no crop and empty
\* query arrays, and the greeting and the welcome menu are sent.
C12_ExpiredMeansFirstContact ==
    [][(h.ev.type = "expired" /\ h'.ev.type \notin {"expired", "none"})
       => /\ ~Present(store)
          /\ h'.pre = NoSession
          /\ h'.state = GREETING
          /\ h'.ops = <<<<"create", store'.sessionId>>>>
          /\ store'.sessionId # h.pre.sessionId
          /\ <<store'.sessionId, "">> \notin DOMAIN docs'
          /\ store'.crop = None
          /\ store'.query = EmptyQuery
          /\ h'.out = <<"greeting", "welcome_menu">>]_vars

\* a location message handled after the user's first session has expired
C12_Witness ==
    /\ Handled
    /\ h.pre = NoSession
    /\ h.ev.type = "location"
    /\ store.sessionId = 2
    /\ docs = <<>>
    /\ h.out = <<"greeting", "welcome_menu">>

\* C15: a text with one unambiguous crop in AWAITING_CROP_NAME leads to
\* AWAITING_CROP_CONFIRMATION with the detected crop pending and the crop not
\* set; crop_confirm_yes then sets the crop to exactly the pending crop and,
\* the category not being variety_sowing_time, leads to
\* CROP_ADVICE_QUERY_COLLECTING; crop_confirm_no leads back to
\* AWAITING_CROP_NAME with the crop unset; while the confirmation is awaited
\* the pending crop is not replaced by another crop.
ConfirmationAnswered(id) ==
    /\ Handled
    /\ h.state = AWAITING_CROP_CONFIRMATION
    /\ Present(h.pre)
    /\ IsButton(h.ev)
    /\ h.ev.id = id

C15_CropSetOnlyOnConfirmation ==
    /\ (Handled /\ h.state = AWAITING_CROP_NAME /\ h.ev.type = "text"
          /\ h.det.kind = "single")
       => /\ store.state = AWAITING_CROP_CONFIRMATION
          /\ store.crop = None
          /\ store.pendingCrop = h.det.crop
    /\ (ConfirmationAnswered("crop_confirm_yes") /\ Get(h.pre, "pendingCrop") # None)
       => IF h.pre.cropAdviceCategory # "variety_sowing_time"
          THEN /\ store.crop = h.pre.pendingCrop
               /\ store.state = CROP_ADVICE_QUERY_COLLECTING
          ELSE IF h.exc THEN store.crop = h.pre.pendingCrop
          ELSE docs[<<h.pre.sessionId, "">>].crop = h.pre.pendingCrop
    /\ ConfirmationAnswered("crop_confirm_no")
       => /\ store.state = AWAITING_CROP_NAME
          /\ store.crop = None
          /\ store.pendingCrop = None
    /\ (Handled /\ h.state = AWAITING_CROP_CONFIRMATION /\ Present(h.pre)
          /\ store.state = AWAITING_CROP_CONFIRMATION)
       => Get(store, "pendingCrop") \in {Get(h.pre, "pendingCrop"), None}

\* a crop is selected in a session of the category variety_sowing_time: the
\* pending crop is confirmed, or a listed candidate is picked
VarietyCropSelected ==
    /\ Handled
    /\ Present(h.pre)
    /\ h.pre.cropAdviceCategory = "variety_sowing_time"
    /\ IsButton(h.ev)
    /\ \/ /\ h.state = AWAITING_CROP_CONFIRMATION
          /\ h.ev.id = "crop_confirm_yes"
          /\ Get(h.pre, "pendingCrop") # None
       \/ /\ h.state = AWAITING_AMBIGUOUS_CROP_CHOICE
          /\ PickedIndex(h.ev.id) >= 0
          /\ Get(h.pre, "ambiguousCropOptions") # None
          /\ PickedIndex(h.ev.id) < Len(h.pre.ambiguousCropOptions)

\* C16: with the category variety_sowing_time, the event that selects the crop
\* sends the variety answer or the not-available message and ends with a
\* fresh session in AWAITING_MENU_WEATHER_CHOICE; a session of that category
\* is never in CROP_ADVICE_QUERY_COLLECTING or PROCESSING_CROP_QUERY.
C16_VarietyAnswerEndsCycle ==
    /\ VarietyCropSelected
       => /\ Len(h.out) >= 1
          /\ h.out[1] \in {"varieties_answer", "varieties_unavailable"}
          /\ store.state = AWAITING_MENU_WEATHER_CHOICE
          /\ store.sessionId # h.pre.sessionId
          /\ store.crop = None
          /\ store.cropAdviceCategory = None
          /\ store.query = EmptyQuery
    /\ (Present(store) /\ store.cropAdviceCategory = "variety_sowing_time")
       => store.state \notin {CROP_ADVICE_QUERY_COLLECTING, PROCESSING_CROP_QUERY}

\* crop advice is delivered by the event query_done of a collecting session
AdviceDelivered ==
    /\ Handled
    /\ ~h.exc
    /\ h.state = CROP_ADVICE_QUERY_COLLECTING
    /\ h.ev.id = "query_done"
    /\ \E i \in 1..Len(h.out) : h.out[i] \in {ADVICE, FINAL, RAGTXT, AGGQ}

\* C17: after crop advice has been delivered for a query_done event the stored
\* session is a new one: state GREETING, a sessionId other than that of the
\* session that asked, crop and category unset, upload count 0 and the three
\* query arrays empty.
C17_AdviceEndsWithNewSession ==
    AdviceDelivered
    => /\ Present(store)
       /\ store.state = GREETING
       /\ store.sessionId # h.pre.sessionId
       /\ store.crop = None
       /\ store.cropAdviceCategory = None
       /\ store.uploadCount = 0
       /\ store.query = EmptyQuery

\* the backup delivers the advice for a query of one text and one upload
C17_Witness ==
    /\ AdviceDelivered
    /\ ver = BACKUP
    /\ h.pre.crop \in Crops
    /\ h.pre.uploadCount = 1
    /\ Len(h.pre.query.texts) = 1
    /\ store.state = GREETING
    /\ store.sessionId > h.pre.sessionId

----------------------------------------------------------------------------
(* The session store by itself: one action per operation, and the clock *)

MaxStoreOps == 4
TickSeconds == 100

\* create_session, update_session and the helpers built on them
StoreWriteOps ==
    {"create_session", "update_session", "update_session_state",
     "update_crop_advice_category", "update_crop_info", "update_is_existing_crop",
     "update_district_info", "set_user_location", "append_user_query",
     "append_advice_response", "append_aggregated_query_response",
     "append_aggregated_query_decomposed_response", "reset_query_arrays",
     "next_upload_count"}

StoreWriteOp(op, w) ==
    CASE op = "create_session" -> create_session(w)
      [] op = "update_session" -> update_session(w, [location |-> "loc"])
      [] op = "update_session_state" -> update_session_state(w, AWAITING_CROP_NAME)
      [] op = "update_crop_advice_category" ->
            update_crop_advice_category(w, "disease_management")
      [] op = "update_crop_info" -> update_crop_info(w, "Wheat")
      [] op = "update_is_existing_crop" -> update_is_existing_crop(w, "True")
      [] op = "update_district_info" -> update_district_info(w, TextBody)
      [] op = "set_user_location" -> set_user_location(w, "loc")
      [] op = "append_user_query" -> append_user_query(w, "texts", TextBody)
      [] op = "append_advice_response" -> append_advice_response(w, ADVICE)
      [] op = "append_aggregated_query_response" ->
            append_aggregated_query_response(w, AGGQ)
      [] op = "append_aggregated_query_decomposed_response" ->
            append_aggregated_query_decomposed_response(w, <<"crop | question">>)
      [] op = "reset_query_arrays" -> reset_query_arrays(w)
      [] OTHER -> next_upload_count(w)

InitStore ==
    /\ ver \in Versions
    /\ store = NoSession
    /\ docs = <<>>
    /\ nextSid = 1
    /\ ttl = 0
    /\ nEvents = 0
    /\ h = [op |-> "none", pre |-> NoSession, ttlBefore |-> 0]
    /\ orchCall = OrchIdle
    /\ aggCall = AggIdle
    /\ disp = DispIdle
    /\ vocab = VocabIdle
    /\ rag = RagIdle

\* the operation is done on the store and remembered in h
StoreDid(op, w) ==
    /\ nEvents < MaxStoreOps
    /\ nEvents' = nEvents + 1
    /\ store' = w.s
    /\ docs' = w.docs
    /\ nextSid' = w.sid
    /\ ttl' = w.ttl
    /\ h' = [op |-> op, pre |-> store, ttlBefore |-> ttl]
    /\ UNCHANGED <<ver, orchCall, aggCall, disp, vocab, rag>>

StoreWrite ==
    \E op \in StoreWriteOps : StoreDid(op, StoreWriteOp(op, World(store, docs, nextSid)))

\* get_session returns the value and writes nothing
StoreRead == StoreDid("get_session", World(store, docs, nextSid))

StoreDump ==
    \E failed \in BOOLEAN :
        StoreDid("dump_session", dump_session(World(store, docs, nextSid), failed))

StoreDelete == StoreDid("delete_session", delete_session(World(store, docs, nextSid)))

\* time passes; the key is dropped when its lifetime has run out
StoreTick ==
    /\ ttl > 0
    /\ LET left == IF ttl > TickSeconds THEN ttl - TickSeconds ELSE 0
           w == World(store, docs, nextSid)
       IN /\ ttl' = left
          /\ store' = IF left = 0 THEN expire(w).s ELSE store
    /\ h' = [op |-> "tick", pre |-> store, ttlBefore |-> ttl]
    /\ UNCHANGED <<ver, docs, nextSid, nEvents, orchCall, aggCall, disp, vocab, rag>>

NextStore == StoreWrite \/ StoreRead \/ StoreDump \/ StoreDelete \/ StoreTick

SpecStore == InitStore /\ [][NextStore]_vars

\* C13: every operation that writes a session stores it with the full
\* inactivity window as its remaining lifetime; get_session and dump_session
\* leave the lifetime and the stored session as they were.
C13_WritesResetLifetime ==
    /\ h.op \in StoreWriteOps => (Present(store) /\ ttl = SESSION_TTL)
    /\ h.op \in {"get_session", "dump_session"} => (ttl = h.ttlBefore /\ store = h.pre)

\* a helper of update_session writes a session that had a part of its
\* lifetime left
C13_Witness ==
    /\ h.op = "update_district_info"
    /\ Present(h.pre)
    /\ h.ttlBefore > 0
    /\ h.ttlBefore < SESSION_TTL
    /\ store.district = TextBody
    /\ ttl = SESSION_TTL

----------------------------------------------------------------------------
(* Query collection step by step: the CROP_ADVICE_QUERY_COLLECTING branch of  *)
(* conversation.py between its calls of the store, the Graph API and the blob *)
(* storage, with the clock of the session key running                         *)

MaxCollected == 3

QueryFields == {"texts", "audios", "images"}

FieldOf(type) ==
    CASE type = "text" -> "texts"
      [] type = "audio" -> "audios"
      [] OTHER -> "images"

\* the session as the dialog leaves it when it asks for the query
CollectingSession ==
    Merge(create_session(World(NoSession, <<>>, 1)).s,
          [state |-> CROP_ADVICE_QUERY_COLLECTING,
           cropAdviceCategory |-> "disease_management",
           crop |-> "Wheat",
           isExistingCrop |-> "True"])

NoHandler == [pc |-> "idle", type |-> None, value |-> None, out |-> <<>>]

InitCollect ==
    /\ ver = LIVE
    /\ ttl = SESSION_TTL
    /\ store = CollectingSession
    /\ docs = <<>>
    /\ nextSid = 2
    /\ nEvents = 0
    /\ h = NoHandler
    /\ orchCall = OrchIdle
    /\ aggCall = AggIdle
    /\ disp = DispIdle
    /\ vocab = VocabIdle
    /\ rag = RagIdle

CollectStored(w) ==
    /\ store' = w.s
    /\ docs' = w.docs
    /\ nextSid' = w.sid
    /\ ttl' = w.ttl

\* handle_message reads the session, finds it collecting and takes the branch
\* of the message type
CollectBegin ==
    /\ h.pc = "idle"
    /\ nEvents < MaxCollected
    /\ Present(get_session(World(store, docs, nextSid)))
    /\ store.state = CROP_ADVICE_QUERY_COLLECTING
    /\ \E type \in {"text", "audio", "image"} :
         h' = [pc |-> IF type = "text" THEN "append" ELSE "download",
               type |-> type,
               value |-> IF type = "text" THEN TextBody ELSE None,
               out |-> <<>>]
    /\ nEvents' = nEvents + 1
    /\ UNCHANGED <<ver, store, docs, nextSid, ttl, orchCall, aggCall, disp, vocab, rag>>

\* GraphApi.download_audio / download_image; a failure ends the handler
CollectDownload ==
    /\ h.pc = "download"
    /\ \E ok \in BOOLEAN : h' = IF ok THEN [h EXCEPT !.pc = "count"] ELSE NoHandler
    /\ UNCHANGED <<ver, store, docs, nextSid, ttl, nEvents, orchCall, aggCall, disp, vocab, rag>>

\* session = get_session(..) or create_session(..); next_upload_count(..)
CollectCount ==
    /\ h.pc = "count"
    /\ LET w1 == EnsureSession(World(store, docs, nextSid))
           w2 == next_upload_count(w1)
       IN /\ CollectStored(w2)
          /\ h' = [h EXCEPT !.pc = "upload",
                            !.value = <<UserId, w1.s.sessionId, w2.s.uploadCount,
                                        FieldOf(h.type)>>]
    /\ UNCHANGED <<ver, nEvents, orchCall, aggCall, disp, vocab, rag>>

\* _blob_storage.upload_bytes; a failure ends the handler
CollectUpload ==
    /\ h.pc = "upload"
    /\ \E ok \in BOOLEAN : h' = IF ok THEN [h EXCEPT !.pc = "append"] ELSE NoHandler
    /\ UNCHANGED <<ver, store, docs, nextSid, ttl, nEvents, orchCall, aggCall, disp, vocab, rag>>

\* append_user_query, then the confirmation menu: the handler is done
CollectAppend ==
    /\ h.pc = "append"
    /\ LET w == Send(append_user_query(World(store, docs, nextSid), FieldOf(h.type),
                                       h.value),
                     "query_confirmation_menu")
       IN /\ CollectStored(w)
          /\ h' = [h EXCEPT !.pc = "idle", !.out = w.out]
    /\ UNCHANGED <<ver, nEvents, orchCall, aggCall, disp, vocab, rag>>

\* time passes; the key is dropped when its lifetime has run out
CollectTick ==
    /\ ttl > 0
    /\ LET left == IF ttl > TickSeconds THEN ttl - TickSeconds ELSE 0
           w == World(store, docs, nextSid)
       IN /\ ttl' = left
          /\ store' = IF left = 0 THEN expire(w).s ELSE store
    /\ UNCHANGED <<ver, docs, nextSid, nEvents, h, orchCall, aggCall, disp, vocab, rag>>

NextCollect ==
    \/ CollectBegin
    \/ CollectDownload
    \/ CollectCount
    \/ CollectUpload
    \/ CollectAppend
    \/ CollectTick

SpecCollect == InitCollect /\ [][NextCollect]_vars

\* q2 is q with one element appended to one of the three arrays
OneAppended(q, q2) ==
    \E f \in QueryFields :
        /\ Len(q2[f]) = Len(q[f]) + 1
        /\ SubSeq(q2[f], 1, Len(q[f])) = q[f]
        /\ \A g \in QueryFields \ {f} : q2[g] = q[g]

\* C14: the three arrays of a stored session change only by one element
\* appended to one of them while the stored state is
\* CROP_ADVICE_QUERY_COLLECTING, or by all three being empty after one store
\* write; no element is appended to a session in another state.
C14_ArraysAppendOrReset ==
    [][(Present(store') /\ (~Present(store) \/ store.query # store'.query))
       => \/ store'.query = EmptyQuery
          \/ /\ Present(store)
             /\ store.state = CROP_ADVICE_QUERY_COLLECTING
             /\ OneAppended(store.query, store'.query)]_vars

----------------------------------------------------------------------------
(* The call orchestrator: _gemini_generate_content of the backup module *)

\* a policy whose aggregation attempts time out within the overall budget
GEMINI_POLICY_short_aggregation ==
    "aggregation_multimodal" :> [timeout_s |-> 60, retries |-> 1]
    @@ "advice_main" :> [timeout_s |-> 35, retries |-> 1]
    @@ "advice_audit" :> [timeout_s |-> 30, retries |-> 1]
    @@ "decomposition" :> [timeout_s |-> 25, retries |-> 1]
    @@ "rag_grounded" :> [timeout_s |-> 35, retries |-> 1]
    @@ "auditor_final" :> [timeout_s |-> 20, retries |-> 1]
    @@ "varieties_fetch" :> [timeout_s |-> 35, retries |-> 1]
    @@ "varieties_audit" :> [timeout_s |-> 35, retries |-> 1]

\* GEMINI_POLICY; the aggregation_text_only entry is commented out in the source
GEMINI_POLICY ==
    "aggregation_multimodal" :> [timeout_s |-> 180, retries |-> 1]
    @@ "advice_main" :> [timeout_s |-> 35, retries |-> 1]
    @@ "advice_audit" :> [timeout_s |-> 30, retries |-> 1]
    @@ "decomposition" :> [timeout_s |-> 25, retries |-> 1]
    @@ "rag_grounded" :> [timeout_s |-> 35, retries |-> 1]
    @@ "auditor_final" :> [timeout_s |-> 20, retries |-> 1]
    @@ "varieties_fetch" :> [timeout_s |-> 35, retries |-> 1]
    @@ "varieties_audit" :> [timeout_s |-> 35, retries |-> 1]

OVERALL_BUDGET_S == 90

\* the call kinds the pipeline invokes through the orchestrator
CallKinds == DOMAIN GEMINI_POLICY

\* the call sites that hand start_total to the orchestrator: all of them but
\* _fetch_varieties_from_gemini and _audit_varieties_with_gemini
PassesStartTotal(call_name) == call_name \notin {"varieties_fetch", "varieties_audit"}

FuturesTimeout == "concurrent.futures.TimeoutError"
TimeoutError == "TimeoutError"
\* what the underlying generation call can raise by itself
CallErrors == {"ErrA", "ErrB"}

\* seconds since the processing of the request began when the call is made
StartElapsed == {0, 60, 95}
\* the random jitter of the backoff, as it shows on a clock read in seconds
Jitter == {0, 1}
\* seconds taken by an attempt that ends before its timeout
QuickSeconds == 1
\* the retries a caller can ask for, besides the policy's
MaxRetries == 2

\* one attempt of the underlying call: its outcome and the seconds it takes
AttemptsOf(p) ==
    [res : {"ok"} \cup CallErrors, secs : {QuickSeconds, p.timeout_s}]
    \cup [res : {FuturesTimeout}, secs : {p.timeout_s}]

\* _sleep_backoff(attempt): the seconds slept
sleep_backoff(attempt, jitter) == 2 ^ (attempt - 1) + jitter

\* _check_budget, on the seconds elapsed since start_total
check_budget(elapsed) == ~(elapsed > OVERALL_BUDGET_S)

Raised(exc, msg, run) ==
    [status |-> "raise", exc |-> exc, msg |-> msg, log |-> run.log, now |-> run.now,
     sleeps |-> run.sleeps]

\* a final failure that raises the last exception as it is
final_failure_reraise(last_exc, run) ==
    Raised(last_exc, "", run)

\* the final failure after the loop: a timeout condition when the last
\* exception is the per-attempt timeout, the last exception itself otherwise
final_failure(last_exc, run) ==
    IF last_exc = FuturesTimeout THEN Raised(TimeoutError, "timed_out", run)
    ELSE IF last_exc # None THEN Raised(last_exc, "", run)
    ELSE Raised("Exception", "failed", run)

\* a backoff after every failed attempt, the last one included
backoff_always(attempt, retries) == TRUE

\* "if attempt <= retries": the backoff is slept when another attempt follows
retry_follows(attempt, retries) == attempt <= retries

\* the while loop of _gemini_generate_content; checked says whether the call
\* site passed start_total; run holds attempt, last_exc, the clock, the
\* log of the attempts (elapsed seconds at their start, submitted or not)
\* and the attempts after which the backoff was slept
RECURSIVE gemini_loop(_, _, _, _, _, _)
gemini_loop(timeout_s, retries, checked, att, jitter, run) ==
    IF ~(run.attempt <= retries) THEN final_failure(run.last_exc, run)
    ELSE
    LET attempt == run.attempt + 1
        entry(sub) == [attempt |-> attempt, elapsed |-> run.now, submitted |-> sub]
    IN IF checked /\ ~check_budget(run.now)
       THEN Raised(TimeoutError, "budget", [run EXCEPT !.log = Append(@, entry(FALSE))])
       ELSE
       LET a == att[attempt]
           log1 == Append(run.log, entry(TRUE))
           now1 == run.now + a.secs
           slept == retry_follows(attempt, retries)
           now2 == IF slept THEN now1 + sleep_backoff(attempt, jitter) ELSE now1
       IN IF a.res = "ok"
          THEN [status |-> "return", exc |-> None, msg |-> "", log |-> log1, now |-> now1,
                sleeps |-> run.sleeps]
          ELSE gemini_loop(timeout_s, retries, checked, att, jitter,
                           [attempt |-> attempt, last_exc |-> a.res, now |-> now2,
                            log |-> log1,
                            sleeps |-> IF slept THEN Append(run.sleeps, attempt)
                                       ELSE run.sleeps])

gemini_generate_content(timeout_s, retries, checked, start, att, jitter) ==
    gemini_loop(timeout_s, retries, checked, att, jitter,
                [attempt |-> 0, last_exc |-> None, now |-> start, log |-> <<>>,
                 sleeps |-> <<>>])

\* the orchestrator exists in the backup module only
InitOrch ==
    /\ ver = BACKUP
    /\ store = NoSession
    /\ docs = <<>>
    /\ nextSid = 1
    /\ ttl = 0
    /\ nEvents = 0
    /\ h = NoHistory
    /\ orchCall = OrchIdle
    /\ aggCall = AggIdle
    /\ disp = DispIdle
    /\ vocab = VocabIdle
    /\ rag = RagIdle

\* one call of a kind of the policy table, from the call site of that kind,
\* with the retries of the policy or any other number a caller passes
OrchInvoke ==
    /\ orchCall.pc = "idle"
    /\ \E call_name \in CallKinds, start \in StartElapsed, jitter \in Jitter :
         LET p == GEMINI_POLICY[call_name]
         IN \E retries \in {p.retries} \cup 0..MaxRetries :
              \E att \in [1..(retries + 1) -> AttemptsOf(p)] :
                 orchCall' = [pc |-> "done", call_name |-> call_name, start |-> start,
                              att |-> att, retries |-> retries,
                              res |-> gemini_generate_content(
                                         p.timeout_s, retries,
                                         PassesStartTotal(call_name), start, att, jitter)]
    /\ UNCHANGED <<ver, store, docs, nextSid, ttl, nEvents, h, aggCall, disp, vocab, rag>>

OrchReturn ==
    /\ orchCall.pc = "done"
    /\ orchCall' = OrchIdle
    /\ UNCHANGED <<ver, store, docs, nextSid, ttl, nEvents, h, aggCall, disp, vocab, rag>>

NextOrch == OrchInvoke \/ OrchReturn

SpecOrch == InitOrch /\ [][NextOrch]_vars

OrchDone == orchCall.pc = "done"

\* C2: before every attempt, the first included, the budget is checked: an
\* attempt that starts with the budget exceeded is not submitted, it is the
\* last one and the call fails with the timeout condition; for every call
\* kind of the policy table.
C2_BudgetCheckedBeforeEveryAttempt ==
    OrchDone =>
        \A i \in 1..Len(orchCall.res.log) :
            (orchCall.res.log[i].elapsed > OVERALL_BUDGET_S)
            => /\ ~orchCall.res.log[i].submitted
               /\ i = Len(orchCall.res.log)
               /\ orchCall.res.status = "raise"
               /\ orchCall.res.exc = TimeoutError

\* every attempt the policy allows was submitted and the last one failed
GaveUp ==
    /\ OrchDone
    /\ orchCall.res.status = "raise"
    /\ Len(orchCall.res.log) = orchCall.retries + 1
    /\ orchCall.res.log[orchCall.retries + 1].submitted

Submitted == {i \in 1..Len(orchCall.res.log) : orchCall.res.log[i].submitted}

\* C11: one invocation with policy retries r submits the underlying call at
\* most r + 1 times; it returns at the first successful attempt, which is the
\* last one made; a backoff is slept only after an attempt that another
\* attempt follows, never after attempt r + 1.
C11_BoundedAttemptsAndBackoff ==
    OrchDone =>
        /\ Cardinality(Submitted) <= orchCall.retries + 1
        /\ Len(orchCall.res.log) <= orchCall.retries + 1
        /\ \A i \in Submitted :
              (orchCall.att[i].res = "ok")
              <=> (orchCall.res.status = "return" /\ i = Len(orchCall.res.log))
        /\ \A k \in 1..Len(orchCall.res.sleeps) :
              /\ orchCall.res.sleeps[k] <= orchCall.retries
              /\ orchCall.res.sleeps[k] < Len(orchCall.res.log)

\* a call whose first attempt times out, is followed by one backoff, and
\* whose second attempt returns
C11_Witness ==
    /\ OrchDone
    /\ orchCall.res.status = "return"
    /\ Cardinality(Submitted) = 2
    /\ orchCall.res.sleeps = <<1>>
    /\ orchCall.att[1].res = FuturesTimeout

----------------------------------------------------------------------------
(* The multimodal aggregator: _aggregate_multimodal_query, both versions *)

MaxRawLen == 4

\* the fixed words of the rejection phrase after "This"
NQA == "is not a question about"

\* the model's output as a sequence of words; " " stands for surrounding
\* white space, "x" for any other word
Words == {"This", NQA, "Wheat", "wheat", "Rice", "x", " "}
RawTexts == UNION {[1..n -> Words] : n \in 0..MaxRawLen}

\* str.lower(), word by word
LowerWord(word) ==
    CASE word = "This" -> "this"
      [] word = "Wheat" -> "wheat"
      [] word = "Rice" -> "rice"
      [] OTHER -> word

lower(text) == [i \in 1..Len(text) |-> LowerWord(text[i])]

\* str.strip()
RECURSIVE lstrip(_)
lstrip(text) ==
    IF text # <<>> /\ Head(text) = " " THEN lstrip(Tail(text)) ELSE text

RECURSIVE rstrip(_)
rstrip(text) ==
    IF text # <<>> /\ text[Len(text)] = " " THEN rstrip(SubSeq(text, 1, Len(text) - 1))
    ELSE text

strip(text) == rstrip(lstrip(text))

\* the Python "in" of two strings
Contains(text, part) ==
    \E i \in 0..(Len(text) - Len(part)) : SubSeq(text, i + 1, i + Len(part)) = part

\* the phrase the prompt tells the model to return for another crop
RejectionPhrase(crop) == <<"This", NQA, crop>>

AggResult(status, error, text, raw, calls, first) ==
    [status |-> status, error |-> error, text |-> text, raw |-> raw, calls |-> calls,
     first |-> first]

\* conversation.py: mismatch when the stripped output equals the phrase,
\* letter case aside
ClassifyLive(crop, raw, calls, first) ==
    LET expected == RejectionPhrase(crop)
    IN IF lower(strip(raw)) = lower(expected)
       THEN AggResult("mismatch", None, <<>>, raw, calls, first)
       ELSE IF raw = <<>> THEN AggResult("error", None, <<>>, raw, calls, first)
       ELSE AggResult("ok", None, raw, raw, calls, first)

\* the backup: mismatch when the lowered output holds the lowered phrase
\* "is not a question about <crop>"
ClassifyBackup(crop, raw, calls, first) ==
    LET expected == lower(<<NQA, crop>>)
    IN IF Contains(lower(raw), expected)
       THEN AggResult("mismatch", None, <<>>, raw, calls, first)
       ELSE IF raw = <<>> THEN AggResult("error", "empty", <<>>, raw, calls, first)
       ELSE AggResult("ok", None, raw, raw, calls, first)

\* conversation.py: one direct generation call; gen is "ok" or "raise"
AggregateLive(crop, items, gen, text) ==
    IF crop = None \/ items = 0 THEN AggResult("error", None, <<>>, <<>>, <<>>, "none")
    ELSE IF gen # "ok" THEN AggResult("error", None, <<>>, <<>>, <<"direct">>, gen)
    ELSE ClassifyLive(crop, strip(text), <<"direct">>, "ok")

\* the lookup GEMINI_POLICY[name]
HasPolicy(name) == name \in DOMAIN GEMINI_POLICY

\* the fallback of the backup after a timeout of the multimodal call: the
\* policy lookup comes first, inside the try whose except returns the error
FallbackBackup(crop, start, att2, jitter, text2, calls, first) ==
    IF ~HasPolicy("aggregation_text_only")
    THEN AggResult("error", "timeout", <<>>, <<>>, calls, first)
    ELSE LET p == GEMINI_POLICY["aggregation_text_only"]
             r2 == gemini_generate_content(p.timeout_s, p.retries, TRUE, start, att2, jitter)
             calls2 == Append(calls, "aggregation_text_only")
         IN IF r2.status # "return"
            THEN AggResult("error", "timeout", <<>>, <<>>, calls2, first)
            ELSE ClassifyBackup(crop, strip(text2), calls2, first)

\* the backup: the multimodal call through the orchestrator, the fallback on
\* TimeoutError, the error on any other exception
AggregateBackup(crop, items, start, att, jitter, text) ==
    IF crop = None \/ items = 0 THEN AggResult("error", None, <<>>, <<>>, <<>>, "none")
    ELSE LET p == GEMINI_POLICY["aggregation_multimodal"]
             r == gemini_generate_content(p.timeout_s, p.retries, TRUE, start, att, jitter)
             calls == <<"aggregation_multimodal">>
         IN IF r.status = "return" THEN ClassifyBackup(crop, strip(text), calls, "ok")
            ELSE IF r.exc = TimeoutError
            THEN FallbackBackup(crop, r.now, att, jitter, text, calls, TimeoutError)
            ELSE AggResult("error", "error", <<>>, <<>>, calls, r.exc)

\* the attempts of the multimodal call that differ in what the aggregator sees
AggAttempts ==
    LET p == GEMINI_POLICY["aggregation_multimodal"]
        quick(res) == [res |-> res, secs |-> QuickSeconds]
        late == [res |-> FuturesTimeout, secs |-> p.timeout_s]
        fails == {quick("ErrA"), late}
    IN {<<quick("ok"), quick("ok")>>}
       \cup {<<f, s>> : f \in fails, s \in fails \cup {quick("ok")}}

InitAgg ==
    /\ ver \in Versions
    /\ store = NoSession
    /\ docs = <<>>
    /\ nextSid = 1
    /\ ttl = 0
    /\ nEvents = 0
    /\ h = NoHistory
    /\ orchCall = OrchIdle
    /\ aggCall = AggIdle
    /\ disp = DispIdle
    /\ vocab = VocabIdle
    /\ rag = RagIdle

AggDone(crop, r) ==
    aggCall' = [pc |-> "done", crop |-> crop, res |-> r]

\* one call of the aggregator with a non-empty batch; the output text is
\* drawn only where a generation call returns
AggInvoke ==
    /\ aggCall.pc = "idle"
    /\ \E crop \in Crops :
         IF ver = LIVE
         THEN \/ AggDone(crop, AggregateLive(crop, 1, "raise", <<>>))
              \/ \E text \in RawTexts : AggDone(crop, AggregateLive(crop, 1, "ok", text))
         ELSE \E start \in {0, 95}, att \in AggAttempts :
                LET probe == AggregateBackup(crop, 1, start, att, 0, <<>>)
                IN IF probe.first = "ok"
                   THEN \E text \in RawTexts :
                           AggDone(crop, AggregateBackup(crop, 1, start, att, 0, text))
                   ELSE AggDone(crop, probe)
    /\ UNCHANGED <<ver, store, docs, nextSid, ttl, nEvents, h, orchCall, disp, vocab, rag>>

\* the guards at the top of the aggregator: no crop, or an empty batch
AggRefuse ==
    /\ aggCall.pc = "idle"
    /\ \E crop \in Crops \cup {None}, items \in {0, 1} :
         /\ crop = None \/ items = 0
         /\ AggDone(crop, IF ver = LIVE THEN AggregateLive(crop, items, "ok", <<>>)
                          ELSE AggregateBackup(crop, items, 0,
                                               <<[res |-> "ok", secs |-> QuickSeconds],
                                                 [res |-> "ok", secs |-> QuickSeconds]>>,
                                               0, <<>>))
    /\ UNCHANGED <<ver, store, docs, nextSid, ttl, nEvents, h, orchCall, disp, vocab, rag>>

AggReturn ==
    /\ aggCall.pc = "done"
    /\ aggCall' = AggIdle
    /\ UNCHANGED <<ver, store, docs, nextSid, ttl, nEvents, h, orchCall, disp, vocab, rag>>

NextAgg == AggInvoke \/ AggRefuse \/ AggReturn

SpecAgg == InitAgg /\ [][NextAgg]_vars

Aggregated == aggCall.pc = "done"

\* C7: when the multimodal aggregation call times out, a second, text-only
\* generation call is issued through the orchestrator and its output is
\* classified as usual; the result is the error only if that call fails too.
C7_TimeoutFallsBackToTextOnly ==
    (Aggregated /\ ver = BACKUP /\ aggCall.res.first = TimeoutError)
    => /\ Len(aggCall.res.calls) = 2
       /\ aggCall.res.calls[2] = "aggregation_text_only"

\* C8: an output that holds the rejection phrase of the locked crop anywhere,
\* letter case aside, gives mismatch and never ok; any other non-empty output
\* gives ok; an empty output or a failed call gives error.
C8_RejectionPhraseMeansMismatch ==
    Aggregated =>
        IF aggCall.res.first # "ok" THEN aggCall.res.status = "error"
        ELSE IF Contains(lower(aggCall.res.raw), lower(RejectionPhrase(aggCall.crop)))
        THEN aggCall.res.status = "mismatch"
        ELSE IF aggCall.res.raw # <<>> THEN aggCall.res.status = "ok"
        ELSE aggCall.res.status = "error"

----------------------------------------------------------------------------
(* The webhook dispatcher: handle_webhook and _call_maybe_async of app.py *)

MaxRequests == 2
MaxMsgs == 2

Requests == 1..MaxRequests

\* Conversation.handle_message as one function of the stored session
handle_message(v, w0, ev, in) ==
    LET w == EnsureSession(w0)
        state == w.s.state
    IN CASE state = GREETING -> OnGreeting(w, ev)
         [] state = AWAITING_MENU_WEATHER_CHOICE -> OnMenuChoice(w, ev)
         [] state = AWAITING_WEATHER_LOCATION -> OnWeatherLocation(v, w, ev, in)
         [] state = AWAITING_DISTRICT_NAME -> OnDistrictName(w, ev)
         [] state = AWAITING_CROP_NAME -> OnCropName(w, ev, in)
         [] state = AWAITING_CROP_CONFIRMATION -> OnCropConfirmation(w, ev, in)
         [] state = AWAITING_AMBIGUOUS_CROP_CHOICE -> OnAmbiguousChoice(w, ev, in)
         [] state = CROP_ADVICE_CATEGORY_MENU -> OnCategoryMenu(w, ev)
         [] state = CROP_ADVICE_QUERY_COLLECTING -> OnCollecting(v, w, ev, in).w
         [] state = PROCESSING_CROP_QUERY -> OnProcessing(v, w, in).w
         [] OTHER -> w

\* the messages the webhook requests carry, all of the same user
DispatchEvents ==
    {[type |-> "text", kind |-> None, id |-> None],
     [type |-> "location", kind |-> None, id |-> None],
     [type |-> "interactive", kind |-> "LIST", id |-> "weather_info"]}

DispatchInputs == {NoInput, With("fail", "weather")}

NoRequest == [pc |-> "new", n |-> 0, idx |-> 0, ev |-> TextEvent, execs |-> 0, sent |-> 0]

InitDispatch ==
    /\ ver \in Versions
    /\ store = NoSession
    /\ docs = <<>>
    /\ nextSid = 1
    /\ ttl = 0
    /\ nEvents = 0
    /\ h = NoHistory
    /\ orchCall = OrchIdle
    /\ aggCall = AggIdle
    /\ disp = [reqs |-> [r \in Requests |-> NoRequest], loopWhile |-> {}]
    /\ vocab = VocabIdle
    /\ rag = RagIdle

Running == {r \in Requests : disp.reqs[r].pc = "running"}

\* one execution of the handler on the stored session
Execute(ev, in) == handle_message(ver, World(store, docs, nextSid), ev, in)

Stored(ev, w) ==
    /\ nEvents' = nEvents + 1
    /\ store' = w.s
    /\ docs' = w.docs
    /\ nextSid' = w.sid
    /\ ttl' = w.ttl
    /\ h' = [ev |-> ev, state |-> State, pre |-> store, out |-> w.out, ops |-> w.ops,
             exc |-> w.exc, agg |-> "none", det |-> w.det, chain |-> w.chain,
             dec |-> w.dec, added |-> Added(w), menu |-> Menu(w)]
    /\ UNCHANGED <<ver, orchCall, aggCall, vocab, rag>>

\* handle_webhook: the request is accepted and its messages are looped over
Receive(r) ==
    /\ disp.reqs[r].pc = "new"
    /\ \E n \in 1..MaxMsgs :
         disp' = [disp EXCEPT !.reqs[r] = [NoRequest EXCEPT !.pc = "call", !.n = n,
                                                           !.idx = 1]]
    /\ UNCHANGED <<ver, store, docs, nextSid, ttl, nEvents, h, orchCall, aggCall, vocab, rag>>

\* _call_maybe_async, result = fn(*args): handle_message is a plain function,
\* so it runs here, on the event loop; an exception leaves the request
LoopCall(r) ==
    /\ disp.reqs[r].pc = "call"
    /\ \E ev \in DispatchEvents, in \in DispatchInputs :
         LET w == Execute(ev, in)
         IN /\ Stored(ev, w)
            /\ disp' = [disp EXCEPT
                          !.reqs[r].pc = IF w.exc THEN "failed" ELSE "submitted",
                          !.reqs[r].ev = ev,
                          !.reqs[r].execs = 1,
                          !.reqs[r].sent = Len(w.out),
                          !.loopWhile = Running]

\* the result is not awaitable: anyio.to_thread.run_sync(partial(fn, ...)) is
\* awaited, and a worker thread starts the handler for the same message
ThreadStart(r) ==
    /\ disp.reqs[r].pc = "submitted"
    /\ disp' = [disp EXCEPT !.reqs[r].pc = "running"]
    /\ UNCHANGED <<ver, store, docs, nextSid, ttl, nEvents, h, orchCall, aggCall, vocab, rag>>

\* the worker thread ends the handler; its effects are taken at this point
ThreadEnd(r) ==
    /\ disp.reqs[r].pc = "running"
    /\ \E in \in DispatchInputs :
         LET w == Execute(disp.reqs[r].ev, in)
         IN /\ Stored(disp.reqs[r].ev, w)
            /\ disp' = [disp EXCEPT
                          !.reqs[r].pc = IF w.exc THEN "failed" ELSE "msg_done",
                          !.reqs[r].execs = @ + 1,
                          !.reqs[r].sent = @ + Len(w.out)]

\* the loop over value["messages"] goes on, or the request is answered
NextMessage(r) ==
    /\ disp.reqs[r].pc = "msg_done"
    /\ disp' = [disp EXCEPT
                  !.reqs[r] = IF @.idx < @.n
                              THEN [@ EXCEPT !.pc = "call", !.idx = @ + 1, !.execs = 0,
                                             !.sent = 0]
                              ELSE [@ EXCEPT !.pc = "done"]]
    /\ UNCHANGED <<ver, store, docs, nextSid, ttl, nEvents, h, orchCall, aggCall, vocab, rag>>

NextDispatch ==
    \E r \in Requests :
        \/ Receive(r)
        \/ LoopCall(r)
        \/ ThreadStart(r)
        \/ ThreadEnd(r)
        \/ NextMessage(r)

SpecDispatch == InitDispatch /\ [][NextDispatch]_vars

\* C5: no two executions of handle_message for the same user overlap, within
\* one webhook request or across requests: at most one worker thread runs the
\* handler, and none runs it while the event loop runs it.
C5_NoOverlapPerUser ==
    /\ Cardinality(Running) <= 1
    /\ disp.loopWhile = {}

\* C6: the dispatcher runs the handler exactly once for a message: when the
\* call for a message has returned, one execution has taken place.
C6_HandledExactlyOnce ==
    \A r \in Requests : disp.reqs[r].pc = "msg_done" => disp.reqs[r].execs = 1

----------------------------------------------------------------------------
(* Text of crop names and queries: services/crop_detector.py              *)

\* a text is a sequence of characters: "a" and "b" are Latin letters, "A"
\* and "B" their capitals, "-" a punctuation mark, " " white space, "DA" the
\* Devanagari letter that transliterates to "a"
LowerChar(c) ==
    CASE c = "A" -> "a"
      [] c = "B" -> "b"
      [] OTHER -> c

\* _PUNCT_RE: everything but letters, digits, underscore, space, Devanagari
IsPunct(c) == c = "-"

\* _SPACE_RE.sub(" ", s): runs of white space become one space
RECURSIVE Squeeze(_)
Squeeze(s) ==
    IF Len(s) < 2 THEN s
    ELSE IF s[1] = " " /\ s[2] = " " THEN Squeeze(Tail(s))
    ELSE <<s[1]>> \o Squeeze(Tail(s))

normalize_text_keepcase(s) ==
    LET spaced == [i \in 1..Len(s) |-> IF IsPunct(s[i]) THEN " " ELSE s[i]]
    IN strip(Squeeze(spaced))

normalize_text(s) ==
    LET lowered == [i \in 1..Len(s) |-> LowerChar(s[i])]
        spaced == [i \in 1..Len(s) |-> IF IsPunct(lowered[i]) THEN " " ELSE lowered[i]]
    IN strip(Squeeze(spaced))

\* str.split(): the words of a normalized text
RECURSIVE Split(_)
Split(s) ==
    IF s = <<>> THEN <<>>
    ELSE IF Head(s) = " " THEN Split(Tail(s))
    ELSE LET n == IF \E i \in 1..Len(s) : s[i] = " "
                  THEN (CHOOSE i \in 1..Len(s) :
                            s[i] = " " /\ \A j \in 1..(i - 1) : s[j] # " ") - 1
                  ELSE Len(s)
         IN <<SubSeq(s, 1, n)>> \o Split(SubSeq(s, n + 1, Len(s)))

Range(seq) == {seq[i] : i \in 1..Len(seq)}

----------------------------------------------------------------------------
(* The vocabulary file crops.json and its users: services/crop_name.py    *)

MaxThreads == 2
MaxDiscoveries == 3

Threads == 1..MaxThreads

\* what the fallback model names as a crop that is not in the master list
NewNames == {<<"a">>, <<"A">>, <<"b">>, <<" ">>}

\* the synonyms the fallback model gives with the name: none, or a list with
\* a repeated form
NewSynonyms ==
    {<<>>,
     <<[en |-> <<"a">>, hi |-> <<"DA">>], [en |-> <<"A", " ">>, hi |-> <<"DA">>]>>}

EmptyData == [crops |-> <<>>, whole |-> TRUE]

\* the vocabulary a deployment starts with
SeedData ==
    [crops |-> <<[master_name |-> <<"b">>, synonyms |-> <<[en |-> <<"b">>, hi |-> <<>>]>>]>>,
     whole |-> TRUE]

\* _load_crops_json: a missing file or one that does not parse reads as empty
load_crops_json(fs) ==
    IF ~fs.exists \/ ~fs.file.whole THEN EmptyData ELSE fs.file

\* _clean_synonyms for a list of {"en", "hi"} objects
clean_synonyms(synonyms) ==
    LET stripped == [i \in 1..Len(synonyms) |->
                        [en |-> strip(synonyms[i].en), hi |-> strip(synonyms[i].hi)]]
    IN SelectSeq(stripped, LAMBDA s : s.en # <<>> \/ s.hi # <<>>)

SynKey(s) == <<normalize_text(s.en), normalize_text(s.hi)>>

RECURSIVE dedupe_synonyms(_)
dedupe_synonyms(synonyms) ==
    IF synonyms = <<>> THEN <<>>
    ELSE LET init == dedupe_synonyms(SubSeq(synonyms, 1, Len(synonyms) - 1))
             last == synonyms[Len(synonyms)]
         IN IF \E i \in 1..Len(init) : SynKey(init[i]) = SynKey(last) THEN init
            ELSE Append(init, last)

\* the duplicate check of _add_new_crop_to_file
IsKnown(data, master_name) ==
    \E i \in 1..Len(data.crops) :
        normalize_text(data.crops[i].master_name) = normalize_text(master_name)

\* the entry _add_new_crop_to_file appends
NewEntry(master_name, synonyms) ==
    LET clean == dedupe_synonyms(clean_synonyms(synonyms))
    IN [master_name |-> master_name,
        synonyms |-> IF clean = <<>> THEN <<[en |-> master_name, hi |-> <<>>]>> ELSE clean]

IdleThread ==
    [pc |-> "start", name |-> <<>>, syn |-> <<>>, data |-> EmptyData, out |-> EmptyData,
     sawPartial |-> FALSE, ret |-> FALSE]

InitVocab ==
    /\ ver = LIVE
    /\ store = NoSession
    /\ docs = <<>>
    /\ nextSid = 1
    /\ ttl = 0
    /\ nEvents = 0
    /\ h = NoHistory
    /\ orchCall = OrchIdle
    /\ aggCall = AggIdle
    /\ disp = DispIdle
    /\ rag = RagIdle
    /\ \E exists \in BOOLEAN :
         vocab = [exists |-> exists,
                  file |-> IF exists THEN SeedData ELSE EmptyData,
                  lock |-> 0,
                  tmp |-> [t \in Threads |-> EmptyData],
                  th |-> [t \in Threads |-> IdleThread],
                  returned |-> {}]

VocabStep(v) ==
    /\ vocab' = v
    /\ UNCHANGED <<ver, store, docs, nextSid, ttl, h, orchCall, aggCall, disp, rag>>

At(t, pc) == vocab.th[t].pc = pc

\* detect_crop starts; _get_detector_and_data asks whether the file exists
GetDetector(t) ==
    /\ At(t, "start")
    /\ nEvents < MaxDiscoveries
    /\ nEvents' = nEvents + 1
    /\ VocabStep([vocab EXCEPT
                    !.th[t] = [IdleThread EXCEPT
                                 !.pc = IF vocab.exists THEN "load" ELSE "create",
                                 !.out = EmptyData]])

\* _atomic_write_json: the temporary file is created and being written
WriteTemp(t) ==
    /\ vocab.th[t].pc \in {"create", "add_write"}
    /\ UNCHANGED nEvents
    /\ VocabStep([vocab EXCEPT
                    !.tmp[t] = [vocab.th[t].out EXCEPT !.whole = FALSE],
                    !.th[t].pc = IF At(t, "create") THEN "create_flush" ELSE "add_flush"])

\* json.dump, flush and fsync are done: the temporary file is complete
FlushTemp(t) ==
    /\ vocab.th[t].pc \in {"create_flush", "add_flush"}
    /\ UNCHANGED nEvents
    /\ VocabStep([vocab EXCEPT
                    !.tmp[t] = vocab.th[t].out,
                    !.th[t].pc = IF At(t, "create_flush") THEN "create_replace"
                                 ELSE "add_replace"])

\* os.replace(tmp_path, path)
ReplaceFile(t) ==
    /\ vocab.th[t].pc \in {"create_replace", "add_replace"}
    /\ UNCHANGED nEvents
    /\ VocabStep([vocab EXCEPT
                    !.exists = TRUE,
                    !.file = vocab.tmp[t],
                    !.th[t].pc = IF At(t, "create_replace") THEN "load" ELSE "add_unlock",
                    !.th[t].ret = At(t, "add_replace")])

\* _get_detector_and_data reads the vocabulary for the detector
LoadVocabulary(t) ==
    /\ At(t, "load")
    /\ UNCHANGED nEvents
    /\ VocabStep([vocab EXCEPT
                    !.th[t].data = load_crops_json(vocab),
                    !.th[t].sawPartial = vocab.exists /\ ~vocab.file.whole,
                    !.th[t].pc = "llm"])

\* the local matcher finds nothing and _ai_detect_crop answers: no crop, or
\* a new crop with its name
Discover(t) ==
    /\ At(t, "llm")
    /\ UNCHANGED nEvents
    /\ \/ VocabStep([vocab EXCEPT !.th[t].pc = "start"])
       \/ \E name \in NewNames, syn \in NewSynonyms :
            VocabStep([vocab EXCEPT !.th[t].name = name, !.th[t].syn = syn,
                                    !.th[t].pc = "add"])

\* _add_new_crop_to_file up to the duplicate check: an empty name returns
\* at once; otherwise the lock is taken and the file is read
AddLoad(t) ==
    /\ At(t, "add")
    /\ UNCHANGED nEvents
    /\ LET master_name == strip(vocab.th[t].name)
           data == load_crops_json(vocab)
       IN IF master_name = <<>>
          THEN VocabStep([vocab EXCEPT !.th[t].pc = "start", !.th[t].ret = FALSE])
          ELSE /\ vocab.lock = 0
               /\ VocabStep([vocab EXCEPT
                     !.lock = t,
                     !.th[t].name = master_name,
                     !.th[t].sawPartial = vocab.exists /\ ~vocab.file.whole,
                     !.th[t].ret = FALSE,
                     !.th[t].out = [data EXCEPT
                                      !.crops = Append(@, NewEntry(master_name,
                                                                   vocab.th[t].syn))],
                     !.th[t].pc = IF IsKnown(data, master_name) THEN "add_unlock"
                                  ELSE "add_write"])

\* the with block is left: the lock is released and the result returned
AddReturn(t) ==
    /\ At(t, "add_unlock")
    /\ UNCHANGED nEvents
    /\ VocabStep([vocab EXCEPT
                    !.lock = 0,
                    !.returned = IF vocab.th[t].ret THEN @ \cup {vocab.th[t].name} ELSE @,
                    !.th[t].pc = "start"])

NextVocab ==
    \E t \in Threads :
        \/ GetDetector(t)
        \/ WriteTemp(t)
        \/ FlushTemp(t)
        \/ ReplaceFile(t)
        \/ LoadVocabulary(t)
        \/ Discover(t)
        \/ AddLoad(t)
        \/ AddReturn(t)

SpecVocab == InitVocab /\ [][NextVocab]_vars

\* the entries a reader of the file path finds
FileCrops(v) == IF v.exists THEN v.file.crops ELSE <<>>

IsPrefix(s, t) == Len(s) <= Len(t) /\ SubSeq(t, 1, Len(s)) = s

\* C18: whatever the interleaving of concurrent discoveries, the vocabulary
\* file only grows: no entry is removed or altered, every crop for which
\* _add_new_crop_to_file returned true is in the file afterwards, no two
\* entries have the same normalized master name, and no reader finds a
\* partially written file.
C18_VocabularyOnlyGrows ==
    [][/\ IsPrefix(FileCrops(vocab), FileCrops(vocab'))
       /\ \A name \in vocab'.returned :
             \E i \in 1..Len(FileCrops(vocab')) : FileCrops(vocab')[i].master_name = name
       /\ \A i, j \in 1..Len(FileCrops(vocab')) :
             normalize_text(FileCrops(vocab')[i].master_name)
               = normalize_text(FileCrops(vocab')[j].master_name) => i = j
       /\ \A t \in Threads : ~vocab'.th[t].sawPartial]_vars

----------------------------------------------------------------------------
(* Crop resolution: services/crop_detector.py and detect_crop of          *)
(* services/crop_name.py.  "DB" is the Devanagari letter for "b".  Where  *)
(* the code has None for a text or a match, the model has the empty       *)
(* sequence.                                                              *)

MaxCrops == 2
MaxEntries == 2

\* str.lower()
Lowered(s) == [i \in 1..Len(s) |-> LowerChar(s[i])]

has_devanagari(s) == \E i \in 1..Len(s) : s[i] \in {"DA", "DB"}

has_latin(s) == \E i \in 1..Len(s) : s[i] \in {"a", "b", "A", "B"}

\* transliterate(s, DEVANAGARI, ITRANS) and (s, DEVANAGARI, HK): the two
\* schemes agree on the letters of the model
ToRoman(s) ==
    [i \in 1..Len(s) |-> CASE s[i] = "DA" -> "a"
                           [] s[i] = "DB" -> "b"
                           [] OTHER -> s[i]]

\* transliterate(s, scheme, DEVANAGARI)
ToDevanagari(s) ==
    [i \in 1..Len(s) |-> CASE s[i] \in {"a", "A"} -> "DA"
                           [] s[i] \in {"b", "B"} -> "DB"
                           [] OTHER -> s[i]]

\* the elements of a sequence, each once, in the order of first occurrence
RECURSIVE Unique(_)
Unique(seq) ==
    IF seq = <<>> THEN <<>>
    ELSE LET init == Unique(SubSeq(seq, 1, Len(seq) - 1))
             last == seq[Len(seq)]
         IN IF last \in Range(init) THEN init ELSE Append(init, last)

\* the concatenation of a sequence of sequences
RECURSIVE Flatten(_)
Flatten(seqs) ==
    IF seqs = <<>> THEN <<>> ELSE Head(seqs) \o Flatten(Tail(seqs))

\* list.sort(key, reverse=True) on records with a field key: stable
RECURSIVE SortedDesc(_)
SortedDesc(seq) ==
    IF seq = <<>> THEN <<>>
    ELSE LET init == SortedDesc(SubSeq(seq, 1, Len(seq) - 1))
             last == seq[Len(seq)]
             n == Cardinality({i \in 1..Len(init) : init[i].key >= last.key})
         IN SubSeq(init, 1, n) \o <<last>> \o SubSeq(init, n + 1, Len(init))

\* the transliteration aid: whether the package was imported, and whether
\* it detects a scheme in Latin text
XlitModes ==
    {[available |-> FALSE, scheme |-> FALSE],
     [available |-> TRUE, scheme |-> FALSE],
     [available |-> TRUE, scheme |-> TRUE]}

alias_variants(xlit, alias_norm) ==
    IF ~xlit.available \/ alias_norm = <<>> THEN <<>>
    ELSE LET roman == IF has_devanagari(alias_norm)
                      THEN <<Lowered(ToRoman(alias_norm)), Lowered(ToRoman(alias_norm))>>
                      ELSE <<>>
             deva == IF has_latin(alias_norm) /\ xlit.scheme
                     THEN <<ToDevanagari(alias_norm)>>
                     ELSE <<>>
             variants == roman \o deva
             stripped == [i \in 1..Len(variants) |-> strip(variants[i])]
         IN Unique(SelectSeq(stripped, LAMBDA v : v # <<>>))

query_variants(xlit, q_norm) == alias_variants(xlit, q_norm)

\* _add_alias: the normalized forms stored for one raw alias
add_alias(xlit, alias_raw) ==
    LET alias == normalize_text(alias_raw)
        vs == alias_variants(xlit, alias)
        norm == [i \in 1..Len(vs) |-> normalize_text(vs[i])]
    IN IF alias = <<>> THEN <<>>
       ELSE <<alias>> \o SelectSeq(norm, LAMBDA v : v # <<>> /\ v # alias)

\* the en and hi forms of the synonyms that are not empty
RECURSIVE SynonymForms(_)
SynonymForms(synonyms) ==
    IF synonyms = <<>> THEN <<>>
    ELSE (IF Head(synonyms).en # <<>> THEN <<Head(synonyms).en>> ELSE <<>>)
         \o (IF Head(synonyms).hi # <<>> THEN <<Head(synonyms).hi>> ELSE <<>>)
         \o SynonymForms(Tail(synonyms))

\* the raw aliases _build_index registers for a crop: its master name, then
\* its synonyms
RawAliases(item) == <<item.master_name>> \o SynonymForms(item.synonyms)

ItemAliases(xlit, item) ==
    Flatten([i \in 1..Len(RawAliases(item)) |-> add_alias(xlit, RawAliases(item)[i])])

\* _build_index: the calls of _store_alias in their order
build_index(xlit, crops) ==
    Flatten([i \in 1..Len(crops) |->
               [j \in 1..Len(ItemAliases(xlit, crops[i])) |->
                  [master |-> crops[i].master_name,
                   alias |-> ItemAliases(xlit, crops[i])[j]]]])

\* the keys of alias_to_masters in insertion order
alias_keys(index) == Unique([i \in 1..Len(index) |-> index[i].alias])

alias_to_masters(index, alias) ==
    LET stored == SelectSeq(index, LAMBDA p : p.alias = alias)
    IN Unique([i \in 1..Len(stored) |-> stored[i].master])

single_word_aliases(index) ==
    SelectSeq(alias_keys(index), LAMBDA a : " " \notin Range(a))

multi_word_aliases(index) ==
    LET multi == SelectSeq(alias_keys(index), LAMBDA a : " " \in Range(a))
        keyed == SortedDesc([i \in 1..Len(multi) |-> [key |-> Len(multi[i]), val |-> multi[i]]])
    IN [i \in 1..Len(keyed) |-> keyed[i].val]

MatchResult(master_name, score, match_type, matched_alias) ==
    [master_name |-> master_name, score |-> score, match_type |-> match_type,
     matched_alias |-> matched_alias]

\* one MatchResult for every master of every alias of the list
MatchesOf(index, aliases, score, match_type) ==
    Flatten([i \in 1..Len(aliases) |->
               [j \in 1..Len(alias_to_masters(index, aliases[i])) |->
                  MatchResult(alias_to_masters(index, aliases[i])[j], score, match_type,
                              aliases[i])]])

\* the length of a longest common subsequence
RECURSIVE LCS(_, _)
LCS(s, t) ==
    IF s = <<>> \/ t = <<>> THEN 0
    ELSE IF Head(s) = Head(t) THEN 1 + LCS(Tail(s), Tail(t))
    ELSE LET x == LCS(Tail(s), t)
             y == LCS(s, Tail(t))
         IN IF x >= y THEN x ELSE y

\* rapidfuzz fuzz.ratio: the normalized insert/delete similarity, in whole
\* points
ratio(s, t) ==
    IF Len(s) + Len(t) = 0 THEN 100 ELSE (200 * LCS(s, t)) \div (Len(s) + Len(t))

\* rapidfuzz fuzz.partial_ratio: the best ratio of the shorter text with a
\* window of the longer one
partial_ratio(s, t) ==
    LET short == IF Len(s) <= Len(t) THEN s ELSE t
        long == IF Len(s) <= Len(t) THEN t ELSE s
        windows == {w \in (1..Len(long)) \X (1..Len(long)) :
                      w[2] >= w[1] /\ w[2] - w[1] < Len(short)}
        inWindow == {ratio(short, SubSeq(long, w[1], w[2])) : w \in windows}
    IN IF inWindow = {} THEN 0
       ELSE CHOOSE m \in inWindow : \A n \in inWindow : n <= m

\* process.extractOne on the scores of the choices: the first choice of the
\* highest score, or nothing
extractOne(choices, scores) ==
    IF choices = <<>> THEN <<>>
    ELSE LET best == CHOOSE i \in 1..Len(choices) :
                        \A j \in 1..Len(choices) :
                            \/ scores[j] < scores[i]
                            \/ scores[j] = scores[i] /\ i <= j
         IN <<[alias |-> choices[best], score |-> scores[best]]>>

\* step 3 of _detect_single_variant for one token
FuzzyToken(index, tok) ==
    LET threshold == IF Len(tok) <= 4 THEN 92 ELSE IF Len(tok) <= 7 THEN 88 ELSE 85
        choices == single_word_aliases(index)
        m == extractOne(choices, [i \in 1..Len(choices) |-> ratio(tok, choices[i])])
    IN IF Len(tok) < 2 \/ m = <<>> THEN <<>>
       ELSE IF m[1].score >= threshold
            THEN MatchesOf(index, <<m[1].alias>>, m[1].score, "fuzzy_token")
            ELSE <<>>

\* step 4 of _detect_single_variant
FuzzyPhrase(index, q_norm) ==
    LET choices == multi_word_aliases(index)
        m == extractOne(choices, [i \in 1..Len(choices) |-> partial_ratio(q_norm, choices[i])])
    IN IF Len(q_norm) < 4 \/ m = <<>> THEN <<>>
       ELSE IF m[1].score >= 88
            THEN MatchesOf(index, <<m[1].alias>>, m[1].score, "fuzzy_phrase")
            ELSE <<>>

detect_single_variant(index, q_norm) ==
    LET q_tokens == Split(q_norm)
        phrase == MatchesOf(index,
                            SelectSeq(multi_word_aliases(index),
                                      LAMBDA a : Contains(q_norm, a)),
                            100, "exact_phrase")
        word == MatchesOf(index,
                          SelectSeq(single_word_aliases(index),
                                    LAMBDA a : a \in Range(q_tokens)),
                          100, "exact_word")
    IN IF phrase \o word # <<>> THEN phrase \o word
       ELSE Flatten([i \in 1..Len(q_tokens) |-> FuzzyToken(index, q_tokens[i])])
            \o FuzzyPhrase(index, q_norm)

type_priority(match_type) ==
    CASE match_type = "exact_phrase" -> 4
      [] match_type = "exact_word" -> 3
      [] match_type = "fuzzy_phrase" -> 2
      [] match_type = "fuzzy_token" -> 1
      [] OTHER -> 0

\* the order of _rank_candidates: the score, then the type priority
RankKey(c) == 10 * c.score + type_priority(c.match_type)

rank_candidates(candidates) ==
    LET masters == Unique([i \in 1..Len(candidates) |-> candidates[i].master_name])
        ofMaster(m) == SelectSeq(candidates, LAMBDA c : c.master_name = m)
        best(m) == ofMaster(m)[CHOOSE i \in 1..Len(ofMaster(m)) :
                           \A j \in 1..Len(ofMaster(m)) :
                               \/ RankKey(ofMaster(m)[j]) < RankKey(ofMaster(m)[i])
                               \/ RankKey(ofMaster(m)[j]) = RankKey(ofMaster(m)[i]) /\ i <= j]
        keyed == SortedDesc([i \in 1..Len(masters) |->
                               [key |-> RankKey(best(masters[i])), val |-> best(masters[i])]])
    IN [i \in 1..Len(keyed) |-> keyed[i].val]

finalize_closer(ranked, top_k) ==
    LET ambiguous == Len(ranked) >= 2 /\ ranked[1].score - ranked[2].score < 2
    IN IF ranked = <<>>
       THEN [best |-> <<>>, candidates |-> <<>>, ambiguous |-> FALSE]
       ELSE [best |-> IF ambiguous THEN <<>> ELSE <<ranked[1]>>,
             candidates |-> SubSeq(ranked, 1, IF Len(ranked) < top_k THEN Len(ranked) ELSE top_k),
             ambiguous |-> ambiguous]

finalize(ranked, top_k) ==
    LET ambiguous == Len(ranked) >= 2 /\ ranked[1].score - ranked[2].score <= 2
    IN IF ranked = <<>>
       THEN [best |-> <<>>, candidates |-> <<>>, ambiguous |-> FALSE]
       ELSE [best |-> IF ambiguous THEN <<>> ELSE <<ranked[1]>>,
             candidates |-> SubSeq(ranked, 1, IF Len(ranked) < top_k THEN Len(ranked) ELSE top_k),
             ambiguous |-> ambiguous]

\* the loop of identify_crop over the query variants: it stops after the
\* first variant that leaves an exact hit among the candidates
RECURSIVE AllCandidates(_, _, _)
AllCandidates(index, variants, acc) ==
    IF variants = <<>> THEN acc
    ELSE LET all == acc \o detect_single_variant(index, Head(variants))
         IN IF \E i \in 1..Len(all) : all[i].match_type \in {"exact_phrase", "exact_word"}
            THEN all
            ELSE AllCandidates(index, Tail(variants), all)

identify_crop(xlit, crops, query) ==
    LET q_norm == normalize_text(query)
        qvs == query_variants(xlit, q_norm)
        variants == Unique(SelectSeq(<<q_norm>> \o [i \in 1..Len(qvs) |-> normalize_text(qvs[i])],
                                     LAMBDA v : v # <<>>))
    IN IF q_norm = <<>>
       THEN [best |-> <<>>, candidates |-> <<>>, ambiguous |-> FALSE]
       ELSE finalize(rank_candidates(AllCandidates(build_index(xlit, crops), variants, <<>>)), 5)

\* the trigger phrases of an entry of the curated table
EntryVariants(entry) ==
    <<entry.input_word.en, entry.input_word.hi>> \o entry.variations

\* the test of _find_ambiguous_match for one trigger phrase
TriggerMatches(v, q_norm) ==
    LET v_norm == normalize_text(v)
    IN /\ v_norm # <<>>
       /\ IF " " \in Range(v_norm) THEN Contains(q_norm, v_norm)
          ELSE v_norm \in Range(Split(q_norm))

EntryMatches(entry, q_norm) ==
    \E i \in 1..Len(EntryVariants(entry)) : TriggerMatches(EntryVariants(entry)[i], q_norm)

find_ambiguous_match(query, data) ==
    LET entries == data.ambiguous_names
        q_norm == normalize_text(query)
        hits == {i \in 1..Len(entries) : EntryMatches(entries[i], q_norm)}
    IN IF entries = <<>> \/ q_norm = <<>> \/ hits = {} THEN <<>>
       ELSE <<entries[CHOOSE i \in hits : \A j \in hits : i <= j]>>

NoResult ==
    [crop_name |-> <<>>, is_ambiguous |-> FALSE, ambiguous_crop_names |-> <<>>,
     matched_by |-> "pending", llm_called |-> FALSE, raw |-> <<>>]

\* detect_crop from the curated check to the local decisions: the result,
\* or the fallback still to be asked
detect_crop_local_first(query, data, local) ==
    LET ambiguous_entry == find_ambiguous_match(query, data)
        candidates == local.candidates
    IN IF local.best # <<>> /\ ~local.ambiguous
       THEN [NoResult EXCEPT !.crop_name = local.best[1].master_name,
                             !.matched_by = "local"]
       ELSE IF ambiguous_entry # <<>>
       THEN [NoResult EXCEPT !.is_ambiguous = TRUE,
                             !.ambiguous_crop_names = ambiguous_entry[1].resolves_to,
                             !.matched_by = "curated_ambiguous"]
       ELSE IF local.ambiguous
       THEN [NoResult EXCEPT !.is_ambiguous = TRUE,
                             !.ambiguous_crop_names =
                                 Unique([i \in 1..Len(candidates) |-> candidates[i].master_name]),
                             !.matched_by = "local_ambiguous"]
       ELSE NoResult

detect_crop(query, data, local) ==
    LET ambiguous_entry == find_ambiguous_match(query, data)
        candidates == local.candidates
    IN IF ambiguous_entry # <<>>
       THEN [NoResult EXCEPT !.is_ambiguous = TRUE,
                             !.ambiguous_crop_names = ambiguous_entry[1].resolves_to,
                             !.matched_by = "curated_ambiguous"]
       ELSE IF local.best # <<>> /\ ~local.ambiguous
       THEN [NoResult EXCEPT !.crop_name = local.best[1].master_name,
                             !.matched_by = "local"]
       ELSE IF local.ambiguous
       THEN [NoResult EXCEPT !.is_ambiguous = TRUE,
                             !.ambiguous_crop_names =
                                 Unique([i \in 1..Len(candidates) |-> candidates[i].master_name]),
                             !.matched_by = "local_ambiguous"]
       ELSE NoResult

\* The text the fallback model returns is a sequence of pieces: the phrase
\* "no crop found", other words, the mark "|found", or a JSON value.  A JSON
\* value is an object with a master_name that is a string, an object whose
\* master_name is a number, an object without master_name, or a list.
Piece(kind, text, json) == [kind |-> kind, text |-> text, json |-> json]

NoCropFound == Piece("no_crop_found", <<>>, "")

FoundMark == Piece("found_mark", <<>>, "")

WordsOf(text) == Piece("words", text, "")

JsonObject(master_name) == Piece("json", master_name, "object")

RawOutputs ==
    {<<>>,
     <<NoCropFound>>,
     <<WordsOf(<<"a">>), FoundMark>>,
     <<JsonObject(<<"b", "a">>)>>,
     <<JsonObject(<<" ">>)>>,
     <<WordsOf(<<"a">>)>>,
     <<Piece("json", <<>>, "list")>>,
     <<Piece("json", <<>>, "object_without_name")>>,
     <<Piece("json", <<>>, "object_number_name")>>,
     <<JsonObject(<<"b">>), WordsOf(<<"a">>)>>,
     <<WordsOf(<<"a">>), NoCropFound, FoundMark>>,
     <<JsonObject(<<"b">>), FoundMark>>}

\* the characters of a piece in the raw text
Rendered(piece) ==
    CASE piece.kind = "words" -> piece.text
      [] piece.kind = "json" -> <<"{">> \o piece.text \o <<"}">>
      [] OTHER -> <<>>

\* _ai_detect_crop from the raw text on: no crop, a crop of the master list,
\* a new crop, or the AttributeError of parsed.get on a JSON value that is
\* not an object
ai_detect_crop(raw) ==
    LET none == [status |-> "none", crop_name |-> <<>>, synonyms |-> <<>>]
    IN IF \E i \in 1..Len(raw) : raw[i].kind = "no_crop_found" THEN none
       ELSE IF raw # <<>> /\ raw[Len(raw)].kind = "found_mark"
       THEN [none EXCEPT
               !.status = "master",
               !.crop_name = strip(Flatten([i \in 1..(Len(raw) - 1) |-> Rendered(raw[i])]))]
       ELSE IF Len(raw) = 1 /\ raw[1].kind = "json"
       THEN IF raw[1].json = "list" THEN [none EXCEPT !.status = "raised"]
            ELSE [none EXCEPT
                    !.status = "new",
                    !.crop_name = IF raw[1].json = "object" THEN raw[1].text ELSE <<>>]
       ELSE none

\* detect_crop after the fallback has answered
ai_decision(ai_result) ==
    LET ai_crop == strip(ai_result.crop_name)
    IN IF ai_result.status = "raised"
       THEN [NoResult EXCEPT !.matched_by = "raised", !.llm_called = TRUE]
       ELSE IF ai_result.status = "none" \/ ai_crop = <<>>
       THEN [NoResult EXCEPT !.matched_by = "none", !.llm_called = TRUE]
       ELSE [NoResult EXCEPT !.crop_name = ai_crop,
                             !.matched_by = IF ai_result.status = "new" THEN "ai_new"
                                            ELSE "ai_existing",
                             !.llm_called = TRUE]

\* the vocabulary after _add_new_crop_to_file(crops_path, ai_crop, synonyms)
add_new_crop(data, master_name, synonyms) ==
    IF strip(master_name) = <<>> \/ IsKnown(data, strip(master_name)) THEN data
    ELSE [data EXCEPT !.crops = Append(@, NewEntry(strip(master_name), synonyms))]

\* the crops a vocabulary file holds
CropPool ==
    {[master_name |-> <<"a">>, synonyms |-> <<>>],
     [master_name |-> <<"A">>, synonyms |-> <<>>],
     [master_name |-> <<"b">>, synonyms |-> <<[en |-> <<"a", " ", "b">>, hi |-> <<>>]>>],
     [master_name |-> <<"a", "b">>, synonyms |-> <<[en |-> <<>>, hi |-> <<"DA">>]>>],
     [master_name |-> <<"a", " ", "b">>, synonyms |-> <<>>]}

\* the entries a curated ambiguity table holds
EntryPool ==
    {[input_word |-> [en |-> <<"a">>, hi |-> <<"DA">>], variations |-> <<>>,
      resolves_to |-> <<<<"a">>, <<"a", "b">>>>],
     [input_word |-> [en |-> <<"b">>, hi |-> <<>>], variations |-> <<<<"a", " ", "b">>>>,
      resolves_to |-> <<<<"b">>>>],
     [input_word |-> [en |-> <<"A">>, hi |-> <<>>], variations |-> <<>>,
      resolves_to |-> <<>>]}

\* what a farmer types as the crop
Queries ==
    {<<"a">>, <<"A">>, <<"b">>, <<"a", "b">>, <<"a", " ", "b">>, <<"DA">>,
     <<"A", "-", "B">>, <<>>, <<" ">>}

\* the lists of at most n elements of S, none of them twice
SeqsUpTo(S, n) ==
    UNION {{s \in [1..k -> S] : \A i, j \in 1..k : s[i] = s[j] => i = j} : k \in 0..n}

NoLocal == [best |-> <<>>, candidates |-> <<>>, ambiguous |-> FALSE]

InitDetect ==
    /\ ver = LIVE
    /\ store = NoSession
    /\ docs = <<>>
    /\ nextSid = 1
    /\ ttl = 0
    /\ nEvents = 0
    /\ h = NoHistory
    /\ orchCall = OrchIdle
    /\ aggCall = AggIdle
    /\ disp = DispIdle
    /\ rag = RagIdle
    /\ \E xlit \in XlitModes, crops \in SeqsUpTo(CropPool, MaxCrops),
          entries \in SeqsUpTo(EntryPool, MaxEntries) :
         vocab = [pc |-> "start", xlit |-> xlit,
                  data |-> [crops |-> crops, ambiguous_names |-> entries],
                  query |-> <<>>, local |-> NoLocal, result |-> NoResult]

DetectStep(v) ==
    /\ vocab' = v
    /\ UNCHANGED <<ver, store, docs, nextSid, ttl, nEvents, h, orchCall, aggCall, disp, rag>>

\* detect_crop is called: the local matcher runs on the query
Identify(query) ==
    /\ vocab.pc = "start"
    /\ DetectStep([vocab EXCEPT
                     !.query = query,
                     !.local = identify_crop(vocab.xlit, vocab.data.crops, query),
                     !.pc = "identified"])

Decide_ask_fallback ==
    /\ vocab.pc = "identified"
    /\ LET result == detect_crop(vocab.query, vocab.data, vocab.local)
       IN DetectStep([vocab EXCEPT
                        !.result = result,
                        !.pc = IF result.matched_by \in {"pending", "local_ambiguous"}
                               THEN "llm" ELSE "done"])

\* the curated table and the local result decide, or leave it to the fallback
Decide ==
    /\ vocab.pc = "identified"
    /\ LET result == detect_crop(vocab.query, vocab.data, vocab.local)
       IN DetectStep([vocab EXCEPT
                        !.result = result,
                        !.pc = IF result.matched_by = "pending" THEN "llm" ELSE "done"])

\* _ai_detect_crop answers and detect_crop returns or raises; a new crop is
\* added to the vocabulary
AiDetect(raw) ==
    /\ vocab.pc = "llm"
    /\ LET ai_result == ai_detect_crop(raw)
       IN DetectStep([vocab EXCEPT
                        !.result = [ai_decision(ai_result) EXCEPT !.raw = raw],
                        !.data = IF ai_result.status = "new"
                                 THEN add_new_crop(@, ai_result.crop_name, ai_result.synonyms)
                                 ELSE @,
                        !.pc = "done"])

NextDetect ==
    \/ \E query \in Queries : Identify(query)
    \/ Decide
    \/ \E raw \in RawOutputs : AiDetect(raw)

SpecDetect == InitDetect /\ [][NextDetect]_vars

\* a phrase occurs in a normalized text: one word as a whole word of the
\* text, several words as a part of the text
Occurs(phrase, q_norm) ==
    /\ phrase # <<>>
    /\ IF " " \in Range(phrase) THEN Contains(q_norm, phrase)
       ELSE phrase \in Range(Split(q_norm))

Decided == vocab.pc \in {"llm", "done"}

\* detect_crop returned the candidate set of the entry, no crop, and did not
\* ask the fallback
CuratedAnswer(entry) ==
    /\ vocab.pc = "done"
    /\ vocab.result.is_ambiguous
    /\ vocab.result.ambiguous_crop_names = entry.resolves_to
    /\ vocab.result.crop_name = <<>>
    /\ ~vocab.result.llm_called

\* C19 as stated: whenever the normalized input contains a trigger phrase of
\* an entry of the curated ambiguity table, detect_crop returns is_ambiguous
\* with that entry's candidate set and no single crop, whatever the local
\* matcher found, and the fallback is not called.
C19_TriggerContainedOverrides ==
    Decided =>
        \A i \in 1..Len(vocab.data.ambiguous_names) :
            LET entry == vocab.data.ambiguous_names[i]
            IN \A k \in 1..Len(EntryVariants(entry)) :
                   (/\ normalize_text(EntryVariants(entry)[k]) # <<>>
                    /\ Contains(normalize_text(vocab.query),
                                normalize_text(EntryVariants(entry)[k])))
                   => CuratedAnswer(entry)

\* entry i is the first entry of the table with a trigger phrase that occurs
\* in the normalized input
FirstOccurring(i) ==
    LET entries == vocab.data.ambiguous_names
        occurs(j) == \E k \in 1..Len(EntryVariants(entries[j])) :
                        Occurs(normalize_text(EntryVariants(entries[j])[k]),
                               normalize_text(vocab.query))
    IN occurs(i) /\ \A j \in 1..(i - 1) : ~occurs(j)

\* C19 amended: whenever a trigger phrase of the curated ambiguity table
\* occurs in the normalized input (a one-word trigger as a whole word, a
\* trigger of several words as a part of the text), detect_crop returns
\* is_ambiguous with the candidate set of the first such entry of the table
\* and no single crop, whatever the local matcher found, and the fallback is
\* not called.
C19_FirstOccurringEntryOverrides ==
    Decided =>
        \A i \in 1..Len(vocab.data.ambiguous_names) :
            FirstOccurring(i) => CuratedAnswer(vocab.data.ambiguous_names[i])

\* a curated entry overrode one exact local match of score 100
C19_Witness ==
    /\ vocab.pc = "done"
    /\ \E i \in 1..Len(vocab.data.ambiguous_names) : FirstOccurring(i)
    /\ vocab.result.is_ambiguous
    /\ vocab.local.best # <<>>
    /\ vocab.local.best[1].score = 100
    /\ ~vocab.local.ambiguous

\* the input is a registered alias of the crop, up to letter case
IsExactAlias(query, item) ==
    \E i \in 1..Len(RawAliases(item)) :
        /\ normalize_text(RawAliases(item)[i]) # <<>>
        /\ Lowered(query) = Lowered(RawAliases(item)[i])

\* identify_crop named the crop as the single best match with score 100
BestIs(local, master_name) ==
    /\ ~local.ambiguous
    /\ local.best # <<>>
    /\ local.best[1].master_name = master_name
    /\ local.best[1].score = 100

\* C20 as stated: for every vocabulary and every input that is exactly one
\* registered alias of a crop, in any letter case, identify_crop returns that
\* crop as the single best match with score 100 and ambiguous = false.
C20_ExactAliasIsBest ==
    vocab.pc = "identified" =>
        \A i \in 1..Len(vocab.data.crops) :
            IsExactAlias(vocab.query, vocab.data.crops[i])
            => BestIs(vocab.local, vocab.data.crops[i].master_name)

\* no crop of another master name is indexed under an alias that occurs in
\* the normalized input
NoRival(i) ==
    LET crops == vocab.data.crops
    IN \A j \in 1..Len(crops) :
           crops[j].master_name # crops[i].master_name
           => \A k \in 1..Len(ItemAliases(vocab.xlit, crops[j])) :
                  ~Occurs(ItemAliases(vocab.xlit, crops[j])[k], normalize_text(vocab.query))

\* C20 amended: for every vocabulary and every input that is exactly one
\* registered alias of a crop, in any letter case, identify_crop returns that
\* crop as the single best match with score 100 and ambiguous = false,
\* provided no crop of another master name is indexed under an alias (a
\* synonym, the master name, or a transliteration variant of one) that is the
\* normalized input or occurs in it.
C20_ExactAliasWithoutRivalIsBest ==
    vocab.pc = "identified" =>
        \A i \in 1..Len(vocab.data.crops) :
            (IsExactAlias(vocab.query, vocab.data.crops[i]) /\ NoRival(i))
            => BestIs(vocab.local, vocab.data.crops[i].master_name)

\* an alias typed in another letter case, with a second crop in the
\* vocabulary, was resolved
C20_Witness ==
    /\ vocab.pc = "identified"
    /\ \E i, j \in 1..Len(vocab.data.crops) :
          /\ vocab.data.crops[j].master_name # vocab.data.crops[i].master_name
          /\ IsExactAlias(vocab.query, vocab.data.crops[i])
          /\ vocab.query \notin Range(RawAliases(vocab.data.crops[i]))
          /\ NoRival(i)
          /\ BestIs(vocab.local, vocab.data.crops[i].master_name)

----------------------------------------------------------------------------
(* Ranking and decision on any candidates.  The texts of SpecDetect are   *)
(* too short for two fuzzy scores that are close and different; here the  *)
(* candidates _detect_single_variant hands to _rank_candidates are any    *)
(* list of matches.                                                       *)

MaxCandidates == 2

\* a match of the matcher: exact matches score 100, fuzzy ones less
CandidatePool ==
    {MatchResult(m, k[1], k[2], m) :
        m \in {<<"a">>, <<"b">>, <<"a", "b">>},
        k \in {<<100, "exact_word">>, <<98, "fuzzy_phrase">>, <<97, "fuzzy_token">>,
               <<88, "fuzzy_token">>}}

RankQueries == {<<"a">>, <<"DB">>}

InitRank ==
    /\ ver = LIVE
    /\ store = NoSession
    /\ docs = <<>>
    /\ nextSid = 1
    /\ ttl = 0
    /\ nEvents = 0
    /\ h = NoHistory
    /\ orchCall = OrchIdle
    /\ aggCall = AggIdle
    /\ disp = DispIdle
    /\ rag = RagIdle
    /\ \E entries \in SeqsUpTo(EntryPool, MaxEntries) :
         vocab = [pc |-> "start", xlit |-> [available |-> FALSE, scheme |-> FALSE],
                  data |-> [crops |-> <<>>, ambiguous_names |-> entries],
                  query |-> <<>>, local |-> NoLocal, result |-> NoResult, found |-> <<>>]

\* identify_crop from the candidates on: _rank_candidates and _finalize
RankFound(query, found) ==
    /\ vocab.pc = "start"
    /\ DetectStep([vocab EXCEPT
                     !.query = query,
                     !.found = found,
                     !.local = finalize(rank_candidates(found), 5),
                     !.pc = "identified"])

NextRank ==
    \/ \E query \in RankQueries, found \in SeqsUpTo(CandidatePool, MaxCandidates) :
          RankFound(query, found)
    \/ Decide
    \/ \E raw \in RawOutputs : AiDetect(raw)

SpecRank == InitRank /\ [][NextRank]_vars

\* the highest score the matcher gave a crop
TopScore(found, m) ==
    LET scores == {found[i].score : i \in {j \in 1..Len(found) : found[j].master_name = m}}
    IN CHOOSE s \in scores : \A x \in scores : x <= s

FoundMasters(found) == {found[i].master_name : i \in 1..Len(found)}

\* the two highest-scoring distinct crops differ by at most 2 points
CloseTopTwo(found) ==
    \E m1, m2 \in FoundMasters(found) :
        /\ m1 # m2
        /\ \A m \in FoundMasters(found) : TopScore(found, m) <= TopScore(found, m1)
        /\ \A m \in FoundMasters(found) \ {m1} : TopScore(found, m) <= TopScore(found, m2)
        /\ TopScore(found, m1) - TopScore(found, m2) <= 2

Identified == vocab.pc \in {"identified", "llm", "done"}

\* identify_crop said ambiguous and named no best match
LocalAmbiguous == vocab.local.ambiguous /\ vocab.local.best = <<>>

\* detect_crop answered ambiguous with these candidates and no crop
AmbiguousAnswer(options) ==
    /\ vocab.pc = "done"
    /\ vocab.result.is_ambiguous
    /\ vocab.result.crop_name = <<>>
    /\ Range(vocab.result.ambiguous_crop_names) = options

\* C21 as stated: whenever the two highest-scoring distinct crops of the
\* local matcher differ by at most 2 points, identify_crop returns ambiguous
\* with no best match, and detect_crop returns the candidate set of the
\* matcher with is_ambiguous = true and never a single crop.
C21_CloseScoresGiveCandidates ==
    (Identified /\ CloseTopTwo(vocab.found)) =>
        /\ LocalAmbiguous
        /\ Decided => AmbiguousAnswer(FoundMasters(vocab.found))

\* C21 amended: whenever the two highest-scoring distinct crops of the local
\* matcher differ by at most 2 points, identify_crop returns ambiguous with
\* no best match, and detect_crop returns is_ambiguous = true and never a
\* single crop, with the candidate set of the matcher or, when a trigger
\* phrase of the curated ambiguity table occurs in the input, with the
\* candidate set of the first such entry.
C21_CloseScoresAreAmbiguous ==
    (Identified /\ CloseTopTwo(vocab.found)) =>
        /\ LocalAmbiguous
        /\ Decided =>
             IF \E i \in 1..Len(vocab.data.ambiguous_names) : FirstOccurring(i)
             THEN \A i \in 1..Len(vocab.data.ambiguous_names) :
                      FirstOccurring(i)
                      => AmbiguousAnswer(Range(vocab.data.ambiguous_names[i].resolves_to))
             ELSE AmbiguousAnswer(FoundMasters(vocab.found))

\* two crops with scores 100 and 98 were found and detect_crop answered with
\* them
C21_Witness ==
    /\ vocab.pc = "done"
    /\ CloseTopTwo(vocab.found)
    /\ \E i, j \in 1..Len(vocab.found) :
          vocab.found[i].score = 100 /\ vocab.found[j].score = 98
    /\ vocab.result.matched_by = "local_ambiguous"

\* the fallback is about to be asked or has been asked
FallbackCalled == vocab.pc = "llm" \/ vocab.result.llm_called

\* C22: detect_crop calls the LLM fallback only when the local matcher
\* produced no candidate and no curated ambiguity entry matched; whenever a
\* local candidate exists, no generation call is made and the vocabulary is
\* not written.
C22_FallbackOnlyWithoutCandidates ==
    [][/\ FallbackCalled' =>
             /\ vocab'.local.candidates = <<>>
             /\ \A i \in 1..Len(vocab'.data.ambiguous_names) :
                    ~EntryMatches(vocab'.data.ambiguous_names[i], normalize_text(vocab'.query))
       /\ vocab'.local.candidates # <<>> =>
             /\ ~FallbackCalled'
             /\ vocab'.data = vocab.data]_vars

\* a local candidate existed and detect_crop answered from it
C22_Witness ==
    /\ vocab.pc = "done"
    /\ vocab.local.candidates # <<>>
    /\ vocab.result.matched_by \in {"local", "local_ambiguous"}
    /\ ~vocab.result.llm_called

\* the three forms the prompt of _ai_detect_crop allows: "no crop found",
\* "<name>|found", or one JSON object with a master_name
AllowedForm(raw) ==
    \/ raw = <<NoCropFound>>
    \/ /\ Len(raw) = 2
       /\ raw[1].kind = "words" /\ strip(raw[1].text) # <<>>
       /\ raw[2] = FoundMark
    \/ /\ Len(raw) = 1
       /\ raw[1].kind = "json" /\ raw[1].json = "object" /\ strip(raw[1].text) # <<>>

\* C23: every output of the fallback that is none of the three allowed forms
\* makes detect_crop return no crop with is_ambiguous = false, without
\* raising and without changing the vocabulary.
C23_MalformedOutputIsNoCrop ==
    [][(vocab.pc = "llm" /\ vocab'.pc = "done" /\ ~AllowedForm(vocab'.result.raw))
       => /\ vocab'.result.matched_by = "none"
          /\ vocab'.result.crop_name = <<>>
          /\ ~vocab'.result.is_ambiguous
          /\ vocab'.data = vocab.data]_vars

----------------------------------------------------------------------------
(* The evidence retriever: services/rag_builder.py.  Distances and scores *)
(* are in hundredths: 35 stands for 0.35 and 100 for 1.0.                 *)

MaxLines == 3

DEFAULT_DISTANCE_THRESHOLD == 35

\* a decomposed query "left|right", or a line without the separator
Line(sep, left, right) == [sep |-> sep, left |-> left, right |-> right]

LinePool ==
    {Line(TRUE, <<"A">>, <<"x">>),
     Line(TRUE, <<"b">>, <<"y">>),
     Line(TRUE, <<"A", " ">>, <<" ", "y">>),
     Line(TRUE, <<>>, <<"x">>),
     Line(TRUE, <<"b">>, <<" ">>),
     Line(FALSE, <<"x">>, <<>>)}

Questions == {<<"x">>, <<"y">>}

\* what a similarity search returns for a question among the documents of
\* a tag: passages with their distances, the closest first
HitPool ==
    {<<[doc |-> "d1", dist |-> 20]>>,
     <<[doc |-> "d1", dist |-> 35]>>,
     <<[doc |-> "d1", dist |-> 10], [doc |-> "d1", dist |-> 20], [doc |-> "d2", dist |-> 50]>>}

\* the crop tags that have documents in the index
IndexedTags ==
    {{}, {<<"a">>}, {<<"a", "_", "z">>}, {<<"a">>, <<"b">>},
     {<<"a", "_", "z">>, <<"a", "_", "y">>}}

\* the orders in which a Python set of these tags can be iterated
Orders(tags) == {s \in SeqsUpTo(tags, Cardinality(tags)) : Len(s) = Cardinality(tags)}

\* the index during one call: the tags with documents, the order in which
\* the set of the census is iterated, whether the census of _get_valid_crops
\* can be read, whether collection.query fails, and the passages found for
\* each question
RagEnvs ==
    UNION {[indexed : {tags}, order : Orders(tags), census : BOOLEAN,
            queryFails : BOOLEAN, hits : [Questions -> HitPool]] : tags \in IndexedTags}

normalize_crop_tag(crop_name) ==
    LET s == Lowered(strip(crop_name))
    IN [i \in 1..Len(s) |-> IF s[i] = " " THEN "_" ELSE s[i]]

\* valid_crops is the set of the census in the order the for loop visits it
resolve_crop_tag(normalized_crop, valid_crops) ==
    LET prefixed == SelectSeq(valid_crops,
                              LAMBDA db_crop : IsPrefix(normalized_crop \o <<"_">>, db_crop))
    IN IF normalized_crop = <<>> THEN <<>>
       ELSE IF valid_crops = <<>> THEN normalized_crop
       ELSE IF normalized_crop \in Range(valid_crops) THEN normalized_crop
       ELSE IF prefixed # <<>> THEN prefixed[1]
       ELSE normalized_crop

\* _get_valid_crops: the tags of the index, or none when the read fails
get_valid_crops(env) == IF env.census THEN env.order ELSE <<>>

\* the lines retrieve_rag_evidence keeps: a separator and a question
AtomicLines(lines) ==
    SelectSeq(lines, LAMBDA l : l.sep /\ strip(l.right) # <<>>)

\* the list parsed of retrieve_rag_evidence
parsed_lines(lines, valid_crops) ==
    LET kept == AtomicLines(lines)
    IN [i \in 1..Len(kept) |->
          [crop |-> strip(kept[i].left),
           query |-> strip(kept[i].right),
           search_tag |-> resolve_crop_tag(normalize_crop_tag(strip(kept[i].left)),
                                           valid_crops)]]

EvidenceRecord(query, crop, status, evidence, matched_crop, score) ==
    [query |-> query, crop |-> crop, status |-> status, evidence |-> evidence,
     matched_crop |-> matched_crop, score |-> score]

\* the records returned when _get_collection gives None
unavailable_records(lines) ==
    LET kept == AtomicLines(lines)
    IN [i \in 1..Len(kept) |->
          EvidenceRecord(strip(kept[i].right), strip(kept[i].left), "ERROR", <<>>, <<>>, 100)]

record_status_inclusive(passages, top_distance, distance_threshold) ==
    IF passages # <<>> /\ top_distance <= distance_threshold THEN "FOUND" ELSE "MISSING"

record_status(passages, top_distance, distance_threshold) ==
    IF passages # <<>> /\ top_distance < distance_threshold THEN "FOUND" ELSE "MISSING"

\* the response of collection.query for one entry of a group
SearchHits(env, tag, query) ==
    IF tag \in env.indexed THEN env.hits[query] ELSE <<>>

\* the record of one entry of a group that was searched
searched_record(env, tag, entry) ==
    LET found == SearchHits(env, tag, entry.query)
        passages == [i \in 1..Len(found) |-> found[i].doc]
        dists == [i \in 1..Len(found) |-> found[i].dist]
        top_distance == IF dists # <<>> THEN dists[1] ELSE 100
        status == record_status(passages, top_distance, DEFAULT_DISTANCE_THRESHOLD)
    IN EvidenceRecord(entry.query, entry.crop, status,
                      IF status = "FOUND" THEN Unique(passages) ELSE <<>>, tag, top_distance)

\* the records of one group of the loop over grouped.items()
group_records(env, tag, entries) ==
    [i \in 1..Len(entries) |->
       IF tag = <<>>
       THEN EvidenceRecord(entries[i].query, entries[i].crop, "MISSING", <<>>, <<>>, 100)
       ELSE IF env.queryFails
       THEN EvidenceRecord(entries[i].query, entries[i].crop, "ERROR", <<>>, tag, 100)
       ELSE searched_record(env, tag, entries[i])]

\* retrieve_rag_evidence once the collection is there
retrieve_rag_evidence(lines, env) ==
    LET parsed == parsed_lines(lines, get_valid_crops(env))
        tags == Unique([i \in 1..Len(parsed) |-> parsed[i].search_tag])
    IN Flatten([g \in 1..Len(tags) |->
                  group_records(env, tags[g],
                                SelectSeq(parsed, LAMBDA e : e.search_tag = tags[g]))])

InitRag ==
    /\ ver = LIVE
    /\ store = NoSession
    /\ docs = <<>>
    /\ nextSid = 1
    /\ ttl = 0
    /\ nEvents = 0
    /\ h = NoHistory
    /\ orchCall = OrchIdle
    /\ aggCall = AggIdle
    /\ disp = DispIdle
    /\ vocab = VocabIdle
    /\ \E cached \in BOOLEAN :
         rag = [pc |-> "start", cached |-> cached, lines |-> <<>>, connect |-> "none",
                env |-> <<>>, results |-> <<>>, raised |-> FALSE]

RagStep(r) ==
    /\ rag' = r
    /\ UNCHANGED <<ver, store, docs, nextSid, ttl, nEvents, h, orchCall, aggCall, disp, vocab>>

\* retrieve_rag_evidence is called: an empty list returns at once
RagCall(lines) ==
    /\ rag.pc = "start"
    /\ RagStep([rag EXCEPT !.lines = lines,
                           !.pc = IF lines = <<>> THEN "done" ELSE "get_collection"])

\* _get_collection: the cached collection, or a connection to the index
\* that succeeds, finds no collection (NotFoundError), or fails with
\* another error, which nothing catches
GetCollection(outcome) ==
    /\ rag.pc = "get_collection"
    /\ rag.cached => outcome = "cached"
    /\ ~rag.cached => outcome # "cached"
    /\ RagStep([rag EXCEPT
                  !.connect = outcome,
                  !.cached = outcome \in {"cached", "ok"},
                  !.results = IF outcome = "missing" THEN unavailable_records(rag.lines)
                              ELSE <<>>,
                  !.raised = outcome = "failed",
                  !.pc = IF outcome \in {"cached", "ok"} THEN "search" ELSE "done"])

\* the census, the grouping and the searches
Search(env) ==
    /\ rag.pc = "search"
    /\ RagStep([rag EXCEPT !.env = <<env>>,
                           !.results = retrieve_rag_evidence(rag.lines, env),
                           !.pc = "done"])

NextRag ==
    \/ \E lines \in SeqsUpTo(LinePool, MaxLines) : RagCall(lines)
    \/ \E outcome \in {"cached", "ok", "missing", "failed"} : GetCollection(outcome)
    \/ \E env \in RagEnvs : Search(env)

SpecRag == InitRag /\ [][NextRag]_vars

RagDone == rag.pc = "done" /\ rag.lines # <<>>

Searched == RagDone /\ rag.env # <<>>

\* the index could not be reached: no collection, a connection failure, or
\* failing similarity queries
Unreachable ==
    \/ rag.connect \in {"missing", "failed"}
    \/ Searched /\ rag.env[1].queryFails

\* C24: if the vector index cannot be reached (collection missing, a
\* connection failure while obtaining the collection, or a failing similarity
\* query), retrieve_rag_evidence does not raise and returns, for every
\* atomic query of the batch, a record with status ERROR and empty evidence.
C24_UnreachableGivesErrors ==
    (RagDone /\ Unreachable) =>
        /\ ~rag.raised
        /\ Len(rag.results) = Len(AtomicLines(rag.lines))
        /\ \A i \in 1..Len(rag.results) :
              rag.results[i].status = "ERROR" /\ rag.results[i].evidence = <<>>

\* the distance of the closest passage of a search result
Closest(found) ==
    CHOOSE d \in {found[i].dist : i \in 1..Len(found)} :
        \A i \in 1..Len(found) : d <= found[i].dist

\* C25: for a query answered by a reachable index, the record's status is
\* FOUND if and only if the search returned at least one passage and the
\* closest passage's distance is strictly below the threshold, and MISSING
\* otherwise; every atomic query whose resolved tag has no indexed documents
\* is MISSING.
C25_FoundIffCloseEnough ==
    (Searched /\ ~rag.env[1].queryFails) =>
        /\ Len(rag.results) = Len(AtomicLines(rag.lines))
        /\ \A i \in 1..Len(rag.results) :
              LET r == rag.results[i]
                  found == SearchHits(rag.env[1], r.matched_crop, r.query)
              IN /\ r.status = IF found # <<>> /\ Closest(found) < DEFAULT_DISTANCE_THRESHOLD
                               THEN "FOUND" ELSE "MISSING"
                 /\ r.matched_crop \notin rag.env[1].indexed => r.status = "MISSING"

\* one call gave a FOUND record, a MISSING record for a passage at exactly
\* the threshold, and a MISSING record for a tag without documents
C25_Witness ==
    /\ Searched
    /\ ~rag.env[1].queryFails
    /\ \E i, j, k \in 1..Len(rag.results) :
          /\ rag.results[i].status = "FOUND"
          /\ rag.results[j].status = "MISSING"
          /\ rag.results[j].score = DEFAULT_DISTANCE_THRESHOLD
          /\ rag.results[k].status = "MISSING"
          /\ rag.results[k].matched_crop \notin rag.env[1].indexed

\* C26: retrieve_rag_evidence returns exactly one record, with a status in
\* {FOUND, MISSING, ERROR}, for every input line of the form
\* 'crop | question', and the i-th record answers the i-th such line.
C26_OneRecordPerLineInOrder ==
    RagDone =>
        /\ ~rag.raised
        /\ Len(rag.results) = Len(AtomicLines(rag.lines))
        /\ \A i \in 1..Len(rag.results) :
              /\ rag.results[i].status \in {"FOUND", "MISSING", "ERROR"}
              /\ rag.results[i].query = strip(AtomicLines(rag.lines)[i].right)
              /\ rag.results[i].crop = strip(AtomicLines(rag.lines)[i].left)

----------------------------------------------------------------------------
(* The audit documents of a crop-advice cycle, checked under Spec *)

\* the positions, in the handler's log, of the audit documents it wrote
\* without the failed suffix
NonFailedDumps ==
    {i \in 1..Len(h.ops) :
        Len(h.ops[i]) = 3 /\ h.ops[i][1] = "dump" /\ h.ops[i][3] = ""}

\* the advice text the handler sent to the user
SentAdvice ==
    h.out[CHOOSE i \in 1..Len(h.out) : h.out[i] \in {ADVICE, FINAL, RAGTXT, AGGQ}]

\* C27: a crop-advice cycle writes exactly one non-failed audit document; it
\* is written under the cycle's sessionId and holds the cycle's final session:
\* the collected query arrays, the aggregated query, the decomposed queries
\* and evidence records the advice was built on, and, last in the advice
\* trail, the advice text that was sent to the user.
C27_OneCompleteAuditDocument ==
    AdviceDelivered
    => LET sid == h.pre.sessionId
       IN /\ Cardinality(NonFailedDumps) = 1
          /\ \A i \in NonFailedDumps : h.ops[i][2] = sid
          /\ <<sid, "">> \in DOMAIN docs
          /\ LET doc == docs[<<sid, "">>]
             IN /\ doc.sessionId = sid
                /\ doc.query = h.pre.query
                /\ doc.geminiAggregatedQuery = AGGQ
                /\ SentAdvice = RAGTXT
                   => /\ doc.geminiAggregatedQueryDecomposed # <<>>
                      /\ Get(doc, "ragResults") = "records"
                /\ doc.adviceResponses # <<>>
                /\ doc.adviceResponses[Len(doc.adviceResponses)] = SentAdvice

\* the query arrays the aggregator was given by the handler
RejectedBatch ==
    IF h.state = CROP_ADVICE_QUERY_COLLECTING
    THEN Collected(World(h.pre, <<>>, 0), h.ev, NoInput).s.query
    ELSE h.pre.query

\* C28: when the aggregator answers mismatch, the "_failed" audit document of
\* the session holds the texts, audio refs and image refs of the rejected
\* batch: the session is dumped before its query arrays are reset.
C28_FailedDumpHoldsBatch ==
    (Handled /\ h.agg = "mismatch" /\ ~h.exc)
    => LET name == <<h.pre.sessionId, "_failed">>
       IN /\ name \in DOMAIN docs
          /\ TotalItems(RejectedBatch) > 0
          /\ docs[name].query = RejectedBatch

----------------------------------------------------------------------------
(* update_session on a user with and without a live session, under SpecStore *)

\* the operations that pass their updates straight to update_session, with
\* the updates StoreWriteOp gives them
UpdatesOf(op) ==
    CASE op = "update_session" -> [location |-> "loc"]
      [] op = "update_session_state" -> [state |-> AWAITING_CROP_NAME]
      [] op = "update_crop_advice_category" -> [cropAdviceCategory |-> "disease_management"]
      [] op = "update_crop_info" -> [crop |-> "Wheat"]
      [] op = "update_is_existing_crop" -> [isExistingCrop |-> "True"]
      [] op = "update_district_info" -> [district |-> TextBody]
      [] OTHER -> [location |-> "loc"]

DirectUpdates ==
    {"update_session", "update_session_state", "update_crop_advice_category",
     "update_crop_info", "update_is_existing_crop", "update_district_info",
     "set_user_location"}

\* C29: after update_session(user, updates) the stored session holds every
\* field of updates with the given value and every other field as it was
\* before the call, also when the user had no live session at the call.
C29_UpdateStoresEveryField ==
    h.op \in DirectUpdates
    => LET updates == UpdatesOf(h.op)
       IN /\ Present(store)
          /\ \A k \in DOMAIN updates : store[k] = updates[k]
          /\ Present(h.pre)
             => \A k \in DOMAIN h.pre \ DOMAIN updates :
                    k \in DOMAIN store /\ store[k] = h.pre[k]

----------------------------------------------------------------------------
(* New and existing crops: the classification and the chain it selects, *)
(* checked under Spec                                                    *)

\* the user confirms the pending crop
CropConfirmed ==
    ConfirmationAnswered("crop_confirm_yes") /\ Get(h.pre, "pendingCrop") # None

\* the session that holds the confirmed crop: the stored one, or the audit
\* document of the cycle when the variety answer has ended the cycle
ConfirmedSession ==
    IF h.pre.cropAdviceCategory # "variety_sowing_time" \/ h.exc THEN store
    ELSE docs[<<h.pre.sessionId, "">>]

\* C30: for a crop selected through confirmation, isExistingCrop of the session
\* is false if and only if the detect_crop call that found the crop appended
\* it to the vocabulary; decomposition and evidence retrieval are invoked only
\* for a session whose isExistingCrop is true, the direct advice-then-audit
\* chain only for a session whose isExistingCrop is false.
C30_NewIffAppendedAndRoutedByIt ==
    /\ CropConfirmed
       => (ConfirmedSession.isExistingCrop = "False" <=> h.added = "True")
    /\ (Handled /\ ~h.exc /\ h.chain = "decomposition")
       => /\ h.pre.isExistingCrop = "True"
          /\ docs[<<h.pre.sessionId, "">>].isExistingCrop = "True"
    /\ (Handled /\ ~h.exc /\ h.chain = "advice_then_audit")
       => /\ h.pre.isExistingCrop = "False"
          /\ docs[<<h.pre.sessionId, "">>].isExistingCrop = "False"

\* the advice for a crop that detect_crop appended to the vocabulary and the
\* user confirmed is generated by the direct chain
C30_Witness ==
    /\ Handled
    /\ ~h.exc
    /\ h.chain = "advice_then_audit"
    /\ h.added = "True"
    /\ h.pre.crop \in Crops
    /\ h.pre.isExistingCrop = "False"
    /\ \E i \in 1..Len(h.out) : h.out[i] \in {ADVICE, FINAL}

----------------------------------------------------------------------------
(* The detector cache of services/crop_name.py: _DETECTOR_CACHE, the file   *)
(* modification time it is compared with, and the calls of detect_crop that *)
(* read and invalidate it while crops are appended.  The vocabulary is the  *)
(* set of its master names; os.replace is one step, and every file written  *)
(* has a modification time of its own.                                       *)

MaxLookups == 3

\* two worker threads run detect_crop
LookupThreads == {1, 2}

CacheNames == {"a", "b"}

\* CropDetector(crops=...) built from a loaded file; None before the first
\* build and after an append
NoDetector == [built |-> FALSE, crops |-> {}]

Detector(crops) == [built |-> TRUE, crops |-> crops]

IdleLookup ==
    [pc |-> "idle", query |-> "a", known |-> {}, mtime |-> 0, crops |-> {},
     detector |-> NoDetector, llm |-> FALSE]

InitCache ==
    /\ ver = LIVE
    /\ store = NoSession
    /\ docs = <<>>
    /\ nextSid = 1
    /\ ttl = 0
    /\ nEvents = 0
    /\ h = NoHistory
    /\ orchCall = OrchIdle
    /\ aggCall = AggIdle
    /\ disp = DispIdle
    /\ rag = RagIdle
    /\ \E exists \in BOOLEAN :
         vocab = [exists |-> exists, file |-> {}, mtime |-> 0, lock |-> 0,
                  cache |-> [mtime |-> -1, detector |-> NoDetector],
                  appended |-> {},
                  th |-> [t \in LookupThreads |-> IdleLookup]]

CacheStep(v) ==
    /\ vocab' = v
    /\ UNCHANGED <<ver, store, docs, nextSid, ttl, h, orchCall, aggCall, disp, rag>>

Doing(t, pc) == vocab.th[t].pc = pc

\* detect_crop(query) is called: _get_detector_and_data asks whether the file
\* exists.  known: the crops appended before this call started
LookupStart(t, query) ==
    /\ Doing(t, "idle")
    /\ nEvents < MaxLookups
    /\ nEvents' = nEvents + 1
    /\ CacheStep([vocab EXCEPT
                    !.th[t] = [IdleLookup EXCEPT
                                 !.pc = IF vocab.exists THEN "getmtime" ELSE "create",
                                 !.query = query,
                                 !.known = vocab.appended]])

\* _atomic_write_json(crops_path, {"crops": [], ...}) for the missing file
CreateFile(t) ==
    /\ Doing(t, "create")
    /\ UNCHANGED nEvents
    /\ CacheStep([vocab EXCEPT !.exists = TRUE, !.file = {}, !.mtime = vocab.mtime + 1,
                               !.th[t].pc = "getmtime"])

\* mtime = os.path.getmtime(crops_path)
GetMtime(t) ==
    /\ Doing(t, "getmtime")
    /\ UNCHANGED nEvents
    /\ CacheStep([vocab EXCEPT !.th[t].mtime = vocab.mtime, !.th[t].pc = "check"])

\* the cache is stale when it has no detector or another mtime
cache_is_stale(cache, mtime) == ~cache.detector.built \/ cache.mtime # mtime

CheckCache(t) ==
    /\ Doing(t, "check")
    /\ UNCHANGED nEvents
    /\ CacheStep([vocab EXCEPT
                    !.th[t].pc = IF cache_is_stale(vocab.cache, vocab.th[t].mtime)
                                 THEN "load" ELSE "return"])

\* data = _load_crops_json(crops_path); detector = CropDetector(crops=...)
LoadForDetector(t) ==
    /\ Doing(t, "load")
    /\ UNCHANGED nEvents
    /\ CacheStep([vocab EXCEPT !.th[t].crops = vocab.file, !.th[t].pc = "update"])

\* _DETECTOR_CACHE.update({...})
UpdateCache(t) ==
    /\ Doing(t, "update")
    /\ UNCHANGED nEvents
    /\ CacheStep([vocab EXCEPT
                    !.cache = [mtime |-> vocab.th[t].mtime,
                               detector |-> Detector(vocab.th[t].crops)],
                    !.th[t].pc = "return"])

\* return _DETECTOR_CACHE["detector"], ...: the cache is read again
ReturnDetector(t) ==
    /\ Doing(t, "return")
    /\ UNCHANGED nEvents
    /\ CacheStep([vocab EXCEPT !.th[t].detector = vocab.cache.detector,
                               !.th[t].pc = "identify"])

\* detector.identify_crop(query): a local match ends the call, no match goes
\* to the fallback model; on None the call raises
IdentifyCached(t) ==
    /\ Doing(t, "identify")
    /\ UNCHANGED nEvents
    /\ LET detector == vocab.th[t].detector
       IN CacheStep([vocab EXCEPT
                       !.th[t].pc = IF ~detector.built THEN "raised"
                                    ELSE IF vocab.th[t].query \in detector.crops
                                    THEN "done" ELSE "add",
                       !.th[t].llm = detector.built
                                     /\ vocab.th[t].query \notin detector.crops])

\* _add_new_crop_to_file: the lock is taken, the file is read, and unless the
\* name is there the file is replaced by one with the new entry
AppendCrop(t) ==
    /\ Doing(t, "add")
    /\ vocab.lock = 0
    /\ UNCHANGED nEvents
    /\ LET name == vocab.th[t].query
           crops == IF vocab.exists THEN vocab.file ELSE {}
       IN IF name \in crops
          THEN CacheStep([vocab EXCEPT !.th[t].pc = "done"])
          ELSE CacheStep([vocab EXCEPT !.lock = t, !.exists = TRUE,
                                       !.file = crops \cup {name},
                                       !.mtime = vocab.mtime + 1,
                                       !.th[t].pc = "invalidate"])

\* _DETECTOR_CACHE["detector"] = None; return True and the lock is released
Invalidate(t) ==
    /\ Doing(t, "invalidate")
    /\ UNCHANGED nEvents
    /\ CacheStep([vocab EXCEPT !.lock = 0,
                               !.cache.detector = NoDetector,
                               !.appended = @ \cup {vocab.th[t].query},
                               !.th[t].pc = "done"])

\* the call has returned or raised; the thread takes the next one
LookupEnd(t) ==
    /\ vocab.th[t].pc \in {"done", "raised"}
    /\ UNCHANGED nEvents
    /\ CacheStep([vocab EXCEPT !.th[t] = IdleLookup])

NextCache ==
    \E t \in LookupThreads :
        \/ \E query \in CacheNames : LookupStart(t, query)
        \/ CreateFile(t)
        \/ GetMtime(t)
        \/ CheckCache(t)
        \/ LoadForDetector(t)
        \/ UpdateCache(t)
        \/ ReturnDetector(t)
        \/ IdentifyCached(t)
        \/ AppendCrop(t)
        \/ Invalidate(t)
        \/ LookupEnd(t)

SpecCache == InitCache /\ [][NextCache]_vars

\* the call of thread t has its detector and has matched the query on it
Identified31(t) == vocab.th[t].pc \in {"done", "raised", "add", "invalidate"}

\* C31: a detect_crop call that starts after a crop was appended to the
\* vocabulary uses an index that contains the crop, and a query for the crop's
\* name is matched locally without a call of the fallback model, also when
\* lookups run while crops are appended.
C31_AppendedCropIsIndexed ==
    \A t \in LookupThreads :
        (Identified31(t) /\ vocab.th[t].known # {})
        => /\ vocab.th[t].detector.built
           /\ vocab.th[t].known \subseteq vocab.th[t].detector.crops
           /\ vocab.th[t].query \in vocab.th[t].known => ~vocab.th[t].llm

----------------------------------------------------------------------------
(* The decomposed queries a session stores, checked under Spec *)

\* the decomposition call of this handler returned its text
DecompositionReturned == Handled /\ ~h.exc /\ h.dec # "none"

\* C32: after a successful decomposition call the decomposed queries stored
\* in the session are the lines of the output that hold the separator, in the
\* order of the output, and the list is never empty: when no line holds the
\* separator it is the single item made of the crop and the compound question.
C32_DecomposedLinesNeverEmpty ==
    DecompositionReturned
    => LET stored == docs[<<h.pre.sessionId, "">>].geminiAggregatedQueryDecomposed
           usable == with_separator(decomp_lines(h.dec))
       IN /\ stored # <<>>
          /\ \A i \in 1..Len(stored) : stored[i].sep
          /\ stored = IF usable # <<>> THEN usable ELSE <<TaggedLine("crop", AGGQ)>>

----------------------------------------------------------------------------
(* The resolution of crop tags against the census, checked under SpecRag *)

\* the indexed tags that start with the tag followed by "_"
Prefixed(normalized_crop, census) ==
    {c \in census : IsPrefix(normalized_crop \o <<"_">>, c)}

\* the tags of the census the call had, none when it could not be loaded
Census == IF rag.env[1].census THEN rag.env[1].indexed ELSE {}

\* C33: the resolved tag of a line is the normalized tag when the census holds
\* it, otherwise an indexed tag that starts with the normalized tag and "_",
\* otherwise (also with an empty or unreadable census) the normalized tag;
\* and it is determined by the census and the tag, also when several indexed
\* tags have the prefix.
C33_ResolvedTagIsDetermined ==
    (Searched /\ ~rag.env[1].queryFails)
    => \A i \in 1..Len(rag.results) :
          LET tag == normalize_crop_tag(rag.results[i].crop)
              resolved == rag.results[i].matched_crop
          IN /\ IF tag \in Census THEN resolved = tag
                ELSE IF Prefixed(tag, Census) # {} THEN resolved \in Prefixed(tag, Census)
                ELSE resolved = tag
             /\ \A order \in Orders(Census) : resolve_crop_tag(tag, order) = resolved

----------------------------------------------------------------------------
(* Empty input to detect_crop, checked under SpecDetect *)

\* detect_crop ends for an input that is empty or white space
EmptyInputDecided ==
    /\ vocab'.pc = "done"
    /\ vocab.pc # "done"
    /\ strip(vocab'.query) = <<>>

\* C34: for empty or whitespace-only input detect_crop returns no crop with
\* is_ambiguous = false, whatever the fallback model would answer, and the
\* vocabulary file is left as it was.
C34_EmptyInputGivesNoCrop ==
    [][EmptyInputDecided
       => /\ vocab'.result.crop_name = <<>>
          /\ ~vocab'.result.is_ambiguous
          /\ vocab'.data = vocab.data]_vars

----------------------------------------------------------------------------
(* Two handlers of one user in the collecting state, command by command:   *)
(* the worker threads of two webhook requests run handle_message at the    *)
(* same time, and each call of the store is a GET and a SETEX of the whole *)
(* session document                                                        *)

MaxAppendMsgs == 3

AppendHandlers == {1, 2}

IdleAppender ==
    [pc |-> "idle", field |-> "texts", item |-> 0, updates |-> [uploadCount |-> 0],
     doc |-> NoSession, then |-> "idle"]

InitAppend ==
    /\ ver = LIVE
    /\ ttl = SESSION_TTL
    /\ store = CollectingSession
    /\ docs = <<>>
    /\ nextSid = 2
    /\ nEvents = 0
    /\ h = [th |-> [t \in AppendHandlers |-> IdleAppender], returned |-> {},
            processed |-> <<>>]
    /\ orchCall = OrchIdle
    /\ aggCall = AggIdle
    /\ disp = DispIdle
    /\ vocab = VocabIdle
    /\ rag = RagIdle

AppendStep(t, handler) ==
    /\ h.processed = <<>>
    /\ h' = [h EXCEPT !.th[t] = handler]
    /\ UNCHANGED <<ver, docs, ttl, orchCall, aggCall, disp, vocab, rag>>

\* handle_message takes the collecting branch for the message numbered item:
\* a text goes to append_user_query, a media file to next_upload_count first
AppendBegin(t, type) ==
    /\ h.th[t].pc = "idle"
    /\ nEvents < MaxAppendMsgs
    /\ Present(store)
    /\ store.state = CROP_ADVICE_QUERY_COLLECTING
    /\ nEvents' = nEvents + 1
    /\ AppendStep(t, [IdleAppender EXCEPT
                        !.pc = IF type = "text" THEN "append" ELSE "count",
                        !.field = FieldOf(type),
                        !.item = nEvents + 1])
    /\ UNCHANGED <<store, nextSid>>

\* next_upload_count up to its call of update_session: the session is read
\* (or created) and the count is taken from it
CountRead(t) ==
    /\ h.th[t].pc = "count"
    /\ LET w == EnsureSession(World(store, docs, nextSid))
       IN /\ store' = w.s
          /\ nextSid' = w.sid
          /\ AppendStep(t, [h.th[t] EXCEPT
                              !.pc = "update",
                              !.updates = [uploadCount |-> w.s.uploadCount + 1],
                              !.then = "append"])
    /\ UNCHANGED nEvents

\* append_user_query up to its call of update_session: the session is read
\* (or created) and the item is appended to the array that was read
AppendRead(t) ==
    /\ h.th[t].pc = "append"
    /\ LET w == EnsureSession(World(store, docs, nextSid))
           query == w.s.query
       IN /\ store' = w.s
          /\ nextSid' = w.sid
          /\ AppendStep(t, [h.th[t] EXCEPT
                              !.pc = "update",
                              !.updates = [query |-> [query EXCEPT ![h.th[t].field] =
                                                          Append(@, h.th[t].item)]],
                              !.then = "return"])
    /\ UNCHANGED nEvents

\* update_session reads the session and merges the updates into it
UpdateRead(t) ==
    /\ h.th[t].pc = "update"
    /\ IF Present(store)
       THEN /\ AppendStep(t, [h.th[t] EXCEPT !.pc = "setex",
                                             !.doc = Merge(store, h.th[t].updates)])
            /\ UNCHANGED <<store, nextSid>>
       ELSE LET w == create_session(World(store, docs, nextSid))
            IN /\ store' = w.s
               /\ nextSid' = w.sid
               /\ AppendStep(t, [h.th[t] EXCEPT !.pc = h.th[t].then])
    /\ UNCHANGED nEvents

\* update_session writes the merged document over the key
UpdateWrite(t) ==
    /\ h.th[t].pc = "setex"
    /\ store' = h.th[t].doc
    /\ AppendStep(t, [h.th[t] EXCEPT !.pc = h.th[t].then])
    /\ UNCHANGED <<nEvents, nextSid>>

\* append_user_query has returned; the confirmation menu is sent and the
\* handler ends
AppendReturn(t) ==
    /\ h.th[t].pc = "return"
    /\ h.processed = <<>>
    /\ h' = [h EXCEPT !.th[t] = IdleAppender,
                      !.returned = @ \cup {<<h.th[t].field, h.th[t].item>>}]
    /\ UNCHANGED <<ver, store, docs, nextSid, ttl, nEvents, orchCall, aggCall, disp,
                   vocab, rag>>

\* query_done is processed: _generate_response gets the stored session
ProcessDone ==
    /\ h.processed = <<>>
    /\ Present(store)
    /\ h' = [h EXCEPT !.processed = <<store.query>>]
    /\ UNCHANGED <<ver, store, docs, nextSid, ttl, nEvents, orchCall, aggCall, disp,
                   vocab, rag>>

NextAppend ==
    \/ \E t \in AppendHandlers :
          \/ \E type \in {"text", "audio", "image"} : AppendBegin(t, type)
          \/ CountRead(t)
          \/ AppendRead(t)
          \/ UpdateRead(t)
          \/ UpdateWrite(t)
          \/ AppendReturn(t)
    \/ ProcessDone

SpecAppend == InitAppend /\ [][NextAppend]_vars

\* C35: every text, audio ref and image ref for which append_user_query has
\* returned is in the session's query arrays when query_done is processed,
\* under every interleaving of the handlers of two messages of the user that
\* came in separate webhook requests.
C35_NoAppendIsLost ==
    h.processed # <<>>
    => \A r \in h.returned : r[2] \in Range(h.processed[1][r[1]])

----------------------------------------------------------------------------
(* The locked crop of a session that collects or processes a query *)

\* the crops detect_crop names
CropNames == Crops \cup {"Maize", "Bajra"}

----------------------------------------------------------------------------
(* The names of the uploaded media: the collecting branch under audio and   *)
(* image messages, query_continue presses and rejected batches, with every  *)
(* blob name the branch has uploaded to kept aside                          *)

MaxUploads == 4

NoUploads == [names |-> {}, twice |-> {}]

InitUpload ==
    /\ ver \in Versions
    /\ ttl = SESSION_TTL
    /\ store = CollectingSession
    /\ docs = <<>>
    /\ nextSid = 2
    /\ nEvents = 0
    /\ h = NoUploads
    /\ orchCall = OrchIdle
    /\ aggCall = AggIdle
    /\ disp = DispIdle
    /\ vocab = VocabIdle
    /\ rag = RagIdle

\* the handler's effects on the store
UploadStored(w) ==
    /\ nEvents < MaxUploads
    /\ nEvents' = nEvents + 1
    /\ store' = w.s
    /\ docs' = w.docs
    /\ nextSid' = w.sid
    /\ ttl' = w.ttl
    /\ UNCHANGED <<ver, orchCall, aggCall, disp, vocab, rag>>

Collecting == Present(store) /\ store.state = CROP_ADVICE_QUERY_COLLECTING

\* an audio or image message: _blob_storage.upload_bytes is called with the
\* blob name unless the download failed
MediaMessage(type, fail) ==
    /\ Collecting
    /\ LET ev == [type |-> type, kind |-> None, id |-> None]
           w0 == World(store, docs, nextSid)
           w == OnCollecting(ver, w0, ev, With("fail", fail)).w
           blob_name == <<UserId, EnsureSession(w0).s.sessionId, w.s.uploadCount,
                          FieldOf(type)>>
       IN /\ UploadStored(w)
          /\ h' = IF fail = "download" THEN h
                  ELSE [names |-> h.names \cup {blob_name},
                        twice |-> h.twice \cup ({blob_name} \cap h.names)]

\* the user presses query_continue
ContinuePressed ==
    /\ Collecting
    /\ UploadStored(OnCollecting(ver, World(store, docs, nextSid),
                                 [type |-> "interactive", kind |-> "BUTTON",
                                  id |-> "query_continue"], NoInput).w)
    /\ UNCHANGED h

\* the user presses query_done and the aggregation rejects the batch
BatchRejected ==
    /\ Collecting
    /\ UploadStored(OnCollecting(ver, World(store, docs, nextSid),
                                 [type |-> "interactive", kind |-> "BUTTON",
                                  id |-> "query_done"], With("agg", "mismatch")).w)
    /\ UNCHANGED h

NextUpload ==
    \/ \E type \in {"audio", "image"}, fail \in {"none", "download", "upload"} :
          MediaMessage(type, fail)
    \/ ContinuePressed
    \/ BatchRejected

SpecUpload == InitUpload /\ [][NextUpload]_vars

\* C37: within one sessionId no two media uploads get the same blob name
\* (user id, sessionId, upload count, extension), for every sequence of audio
\* and image messages, query_continue presses and mismatch rejections.
C37_BlobNamesNeverRepeat == h.twice = {}

----------------------------------------------------------------------------
(* The button of the ambiguity menu and the crop it locks *)

\* a button reply was handled in AWAITING_AMBIGUOUS_CROP_CHOICE
AmbiguousReply ==
    /\ Handled
    /\ h.state = AWAITING_AMBIGUOUS_CROP_CHOICE
    /\ IsButton(h.ev)

\* the reply names button i of the menu sent last
ShownButton(i) ==
    /\ PickedIndex(h.ev.id) = i
    /\ i >= 0
    /\ i < Len(h.menu)
    /\ h.menu[i + 1].id = i

\* the candidate a button title stands for
CandidateOf(title) == title[1]

\* the session the reply was handled on, as it is stored or was dumped
PickedSession ==
    IF Present(store) /\ store.sessionId = h.pre.sessionId THEN store
    ELSE docs[<<h.pre.sessionId, "">>]

----------------------------------------------------------------------------
(* The crop detect_crop calls existing and the vocabulary file, checked     *)
(* under SpecDetect                                                         *)

\* detect_crop returns one crop with is_existing_crop = true
ReturnsExistingCrop ==
    /\ vocab.pc # "done"
    /\ vocab'.pc = "done"
    /\ vocab'.result.crop_name # <<>>
    /\ is_existing_crop(vocab'.result.matched_by, vocab'.data # vocab.data) = "True"

\* C39: whenever detect_crop returns a single crop with is_existing_crop =
\* true, the crop file holds, at the time of the return, an entry whose
\* master name equals that crop up to normalization.
C39_ExistingCropIsInTheFile ==
    [][ReturnsExistingCrop => IsKnown(vocab'.data, vocab'.result.crop_name)]_vars

----------------------------------------------------------------------------
(* The aggregation call and the overall budget, checked under SpecOrch *)

\* the multimodal aggregation call was made with a retry allowed, its first
\* attempt was submitted and ended by the per-attempt timeout
AggregationTimedOutFirst ==
    /\ OrchDone
    /\ orchCall.call_name = "aggregation_multimodal"
    /\ orchCall.retries >= 1
    /\ 1 \in Submitted
    /\ orchCall.att[1].res = FuturesTimeout

\* C40: for the multimodal aggregation call (per-attempt timeout 180 s, one
\* retry, overall budget 90 s counted from the start of the response
\* generation), a first attempt that ends by the per-attempt timeout is never
\* followed by a second submission of the underlying call: the invocation
\* ends with the timeout condition raised by the budget check.
C40_NoRetryAfterAggregationTimeout ==
    AggregationTimedOutFirst
    => /\ Submitted = {1}
       /\ orchCall.res.status = "raise"
       /\ orchCall.res.exc = TimeoutError
       /\ orchCall.res.msg = "budget"

\* the call began one minute into the processing with the policy's one
\* retry, timed out, slept the backoff and was stopped by the budget check
C40_Witness ==
    /\ AggregationTimedOutFirst
    /\ orchCall.retries = GEMINI_POLICY["aggregation_multimodal"].retries
    /\ orchCall.start = 60
    /\ orchCall.res.sleeps = <<1>>
    /\ Len(orchCall.res.log) = 2
    /\ ~orchCall.res.log[2].submitted
    /\ orchCall.res.msg = "budget"

====
